---- MODULE Spec2Model ----
(***************************************************************************)
(* Mieliepit: a stack-based concatenative language with an interactive     *)
(* read-evaluate loop.  The model follows src/mieliepit.cpp (interpreter,  *)
(* compiler, runner, primitives, syntax forms), src/mieliepit.hpp (token   *)
(* scanner, name resolver, containers) and the read loop and prelude of    *)
(* src/unnamed/part_001.                                                   *)
(*                                                                         *)
(* A line is a sequence of character codes.  Every C++ function taking the *)
(* Interpreter (or the Runner / ProgramState) by reference is an operator  *)
(* from the interpreter record to the interpreter record; a function that  *)
(* returns maybe_t<T> returns [i, has, val].                               *)
(***************************************************************************)
EXTENDS Integers, Sequences, FiniteSets, TLC

(***************************************************************************)
(* Bounds of the model.                                                    *)
(***************************************************************************)
\* sizeof(size_t) of the modelled build, in bytes (the machine word is
\* 8 * WordBytes bits wide; 4 on the kernel build, 8 on the hosted one)
WordBytes == 2
\* number of lines read from stdin after the prelude
MaxLines == 2
\* cells one line may execute in runners before the run is cut off
MaxSteps == 40
\* longest digit string whose value the model computes exactly
MaxDigits == 8

Width == 8 * WordBytes
Mod == 2 ^ Width

(***************************************************************************)
(* Characters.                                                             *)
(***************************************************************************)
SPACE == 32
NUL == 0
NEWLINE == 10
CH_0 == 48
CH_9 == 57
CH_a == 97
CH_z == 122
CH_A == 65
CH_Z == 90
CH_RPAREN == 41
CH_LPAREN == 40
CH_QUOTE == 34
CH_SEMI == 59
CH_RBRACKET == 93
CH_BACKTICK == 96

(***************************************************************************)
(* Machine words: number_t, one integer with an unsigned view (pos) and a  *)
(* signed view (sign).  The model keeps the unsigned view.                 *)
(***************************************************************************)
Sign(n) == IF n >= Mod \div 2 THEN n - Mod ELSE n
Pos(s) == s % Mod

RECURSIVE MulMod(_, _)
\* a * b modulo 2^Width without leaving TLC's integers
MulMod(a, b) ==
  IF b = 0 THEN 0
  ELSE (2 * MulMod(a, b \div 2) + (IF b % 2 = 1 THEN a ELSE 0)) % Mod

RECURSIVE BitOp(_, _, _, _)
\* bitwise a op b over k bits; op is "or", "and" or "xor"
BitOp(op, a, b, k) ==
  IF k = 0 THEN 0
  ELSE LET x == a % 2
           y == b % 2
           z == CASE op = "or" -> IF x + y >= 1 THEN 1 ELSE 0
                  [] op = "and" -> IF x + y = 2 THEN 1 ELSE 0
                  [] OTHER -> IF x + y = 1 THEN 1 ELSE 0
       IN z + 2 * BitOp(op, a \div 2, b \div 2, k - 1)

RECURSIVE Shl(_, _)
Shl(a, n) == IF n = 0 THEN a % Mod ELSE Shl((2 * a) % Mod, n - 1)

RECURSIVE Shr(_, _)
Shr(a, n) == IF n = 0 \/ a = 0 THEN a ELSE Shr(a \div 2, n - 1)

\* C++ integer division truncates toward zero
TruncDiv(a, b) ==
  LET q == (IF a < 0 THEN -a ELSE a) \div (IF b < 0 THEN -b ELSE b)
  IN IF (a < 0) = (b < 0) THEN q ELSE -q

RECURSIVE DecDigits(_)
DecDigits(n) == IF n < 10 THEN <<CH_0 + n>> ELSE Append(DecDigits(n \div 10), CH_0 + (n % 10))

\* the characters `std::cout << top.sign` / printf("%d") writes
DecSigned(s) == IF s < 0 THEN <<45>> \o DecDigits(-s) ELSE DecDigits(s)

\* the bytes of one machine word in memory (little-endian host)
RECURSIVE BytesOf(_, _)
BytesOf(n, k) == IF k = 0 THEN <<>> ELSE <<n % 256>> \o BytesOf(n \div 256, k - 1)

RECURSIVE UntilNul(_)
\* the characters of the NUL-terminated string that starts the byte sequence
UntilNul(bs) == IF bs = <<>> \/ Head(bs) = NUL THEN <<>> ELSE <<Head(bs)>> \o UntilNul(Tail(bs))

RECURSIVE Flatten(_)
Flatten(ss) == IF ss = <<>> THEN <<>> ELSE Head(ss) \o Flatten(Tail(ss))

(***************************************************************************)
(* The primitive and syntax tables (names as character codes).  The index  *)
(* of an entry, counted from 0, is its primitive_idx / syntax_idx.         *)
(***************************************************************************)
primitives ==
  << [id |-> "PW_ShowStack", name |-> <<46>>],  \* .
     [id |-> "PW_StackLen", name |-> <<115, 116, 97, 99, 107, 95, 108, 101, 110>>],  \* stack_len
     [id |-> "PW_Dup", name |-> <<100, 117, 112>>],  \* dup
     [id |-> "PW_Swap", name |-> <<115, 119, 97, 112>>],  \* swap
     [id |-> "PW_Rot", name |-> <<114, 111, 116>>],  \* rot
     [id |-> "PW_Unrot", name |-> <<117, 110, 114, 111, 116>>],  \* unrot
     [id |-> "PW_Rev", name |-> <<114, 101, 118>>],  \* rev
     [id |-> "PW_Drop", name |-> <<100, 114, 111, 112>>],  \* drop
     [id |-> "PW_RevN", name |-> <<114, 101, 118, 95, 110>>],  \* rev_n
     [id |-> "PW_Nth", name |-> <<110, 116, 104>>],  \* nth
     [id |-> "PW_Inc", name |-> <<105, 110, 99>>],  \* inc
     [id |-> "PW_Dec", name |-> <<100, 101, 99>>],  \* dec
     [id |-> "PW_Add", name |-> <<43>>],  \* +
     [id |-> "PW_Mul", name |-> <<42>>],  \* *
     [id |-> "PW_Div", name |-> <<47>>],  \* /
     [id |-> "PW_Shl", name |-> <<115, 104, 108>>],  \* shl
     [id |-> "PW_Shr", name |-> <<115, 104, 114>>],  \* shr
     [id |-> "PW_Or", name |-> <<111, 114>>],  \* or
     [id |-> "PW_And", name |-> <<97, 110, 100>>],  \* and
     [id |-> "PW_Xor", name |-> <<120, 111, 114>>],  \* xor
     [id |-> "PW_Not", name |-> <<110, 111, 116>>],  \* not
     [id |-> "PW_Eq", name |-> <<61>>],  \* =
     [id |-> "PW_Lt", name |-> <<60>>],  \* <
     [id |-> "PW_True", name |-> <<116, 114, 117, 101>>],  \* true
     [id |-> "PW_False", name |-> <<102, 97, 108, 115, 101>>],  \* false
     [id |-> "PW_Print", name |-> <<112, 114, 105, 110, 116>>],  \* print
     [id |-> "PW_Pstr", name |-> <<112, 115, 116, 114>>],  \* pstr
     [id |-> "PW_PrintString", name |-> <<112, 114, 105, 110, 116, 95, 115, 116, 114, 105, 110, 103>>],  \* print_string
     [id |-> "PW_Exit", name |-> <<101, 120, 105, 116>>],  \* exit
     [id |-> "PW_Quit", name |-> <<113, 117, 105, 116>>],  \* quit
     [id |-> "PW_Syntax", name |-> <<115, 121, 110, 116, 97, 120>>],  \* syntax
     [id |-> "PW_Primitives", name |-> <<112, 114, 105, 109, 105, 116, 105, 118, 101, 115>>],  \* primitives
     [id |-> "PW_Words", name |-> <<119, 111, 114, 100, 115>>],  \* words
     [id |-> "PW_Guide", name |-> <<103, 117, 105, 100, 101>>] >>  \* guide

syntax ==
  << [id |-> "SC_String", name |-> <<34>>],  \* "
     [id |-> "SC_Hex", name |-> <<104, 101, 120>>],  \* hex
     [id |-> "SC_ShortStr", name |-> <<39>>],  \* '
     [id |-> "SC_Help", name |-> <<104, 101, 108, 112>>],  \* help
     [id |-> "SC_Def", name |-> <<100, 101, 102>>],  \* def
     [id |-> "SC_Comment", name |-> <<40>>],  \* (
     [id |-> "SC_Rec", name |-> <<114, 101, 99>>],  \* rec
     [id |-> "SC_Ret", name |-> <<114, 101, 116>>],  \* ret
     [id |-> "SC_Skip", name |-> <<63>>],  \* ?
     [id |-> "SC_WordDef", name |-> <<58>>],  \* :
     [id |-> "SC_RepAnd", name |-> <<114, 101, 112, 95, 97, 110, 100>>],  \* rep_and
     [id |-> "SC_Rep", name |-> <<114, 101, 112>>],  \* rep
     [id |-> "SC_Block", name |-> <<91>>] >>  \* [

PW(id) == (CHOOSE k \in 1..Len(primitives) : primitives[k].id = id) - 1
SC(id) == (CHOOSE k \in 1..Len(syntax) : syntax[k].id = id) - 1

(***************************************************************************)
(* Value cells.                                                            *)
(***************************************************************************)
new_word(idx) == [type |-> "Word", v |-> idx]
new_primitive(idx) == [type |-> "Primitive", v |-> idx]
new_syntax(idx) == [type |-> "Syntax", v |-> idx]
new_number(n) == [type |-> "Number", v |-> n]
\* the raw functions are named by their address: "recurse", "return_rf",
\* "skip", "rep_and", "print_raw", "print_definition_rf"
new_function_ptr(fp) == [type |-> "RawFunction", v |-> fp]

NoValue == [type |-> "None", v |-> 0]

(***************************************************************************)
(* Addresses of the strings compile_help / compile_def emit as numbers.    *)
(* A string address is a machine word; the model numbers the strings.      *)
(***************************************************************************)
S_S1 == <<CH_BACKTICK, 58, SPACE>>
S_S2 == <<80, 117, 115, 104, 101, 115, 32, 116, 104, 101, 32, 110, 117, 109, 98, 101, 114, 32>>
S_S3 == <<32, 116, 111, 32, 116, 104, 101, 32, 115, 116, 97, 99, 107>>
S_END == <<CH_BACKTICK, 62>>
S_PRI == <<60, 98, 117, 105, 108, 116, 45, 105, 110, 32, 112, 114, 105, 109, 105, 116, 105, 118, 101, 32, CH_BACKTICK>>
S_SYN == <<60, 98, 117, 105, 108, 116, 45, 105, 110, 32, 115, 121, 110, 116, 97, 120, 32, 101, 120, 112, 114, 101, 115, 115, 105, 111, 110, 32, CH_BACKTICK>>
S_LIT == <<60, 108, 105, 116, 101, 114, 97, 108, 32>>

\* the literal strings, in a fixed order; their addresses are 1 .. 7
Literals == <<S_S1, S_S2, S_S3, S_END, S_PRI, S_SYN, S_LIT>>
AddrLiteral(k) == k
AddrPrimName(idx) == 100 + idx
AddrPrimDesc(idx) == 200 + idx
AddrSynName(idx) == 300 + idx
AddrSynDesc(idx) == 400 + idx
AddrWordName(idx) == 500 + idx
AddrWordDesc(idx) == 600 + idx

(***************************************************************************)
(* The interpreter record: Interpreter (line, len, curr_word) together     *)
(* with the ProgramState it refers to (stack, code, error, error_handled,  *)
(* words), the output written so far, and                                  *)
(*   status  "ok", or "crashed" once an assert has aborted the process,    *)
(*           "hung" once a loop repeats without any change of state,       *)
(*           "cut" once MaxSteps cells have been run;                      *)
(*   obs     what happened while the line ran (history, read by the        *)
(*           properties only).                                             *)
(* pos is the index of the character `line` points to, so the C++ `len`    *)
(* is Len(line) - pos + 1; cw_text = 0 stands for curr_word.text = nullptr.*)
(***************************************************************************)
NoObs ==
  [ crash |-> "",             \* the assertion that aborted the process
    underflow |-> FALSE,      \* a pop or read outside the stack happened
    late_run |-> FALSE,       \* a runner executed a cell with state.error set
    late_word |-> FALSE,      \* ... while a word of the word store was running
    late_tok |-> FALSE,       \* the interpreter ran/compiled a value with state.error set
    empty_val |-> FALSE,      \* read_value returned a value for an empty lexeme
    def_seen |-> FALSE,       \* interpret_word_def was entered
    def_err |-> FALSE,        \* ... and the last one returned with state.error set
    def_start |-> 0,          \* its code_start
    def_end |-> 0,            \* length(state.code) when it returned
    def_words |-> 0,          \* length(state.words) when it started
    def_words_end |-> 0,      \* length(state.words) when it returned
    tmp_cells |-> 0,          \* cells interpret_rep_and compiled and removed again
    big_num |-> FALSE,        \* read_number returned a number for a lexeme above Mod - 1
    trace |-> <<>>,           \* the positions in state.code of the cells runners executed
    reps |-> <<>>,            \* one record for every run of the opcode rep_and that returned
    skips |-> <<>>,           \* one record for every run of the opcode skip that returned
    ret_late |-> FALSE,       \* a runner ran a cell, or failed an assert, after its ret had run
    ctl_outside |-> FALSE,    \* rec or ret ran as an opcode in a runner of interpret_rep_and
    hexes |-> <<>>,           \* one record for every token parse_hex was given
    entry |-> <<>>,           \* what the loop of interpret_str found when it was entered
    scans |-> <<>>,           \* the scanner before and after the calls of get_word
    skip_defs |-> <<>>,       \* one record for every ? that compile_skip compiled
    depth |-> 0,              \* the calls of run_word_idx that have not returned
    depth_max |-> 0,          \* the greatest such number during the line
    too_deep |-> FALSE,       \* ... was once greater than length(state.words)
    prim_fails |-> <<>>,      \* one record for every primitive that returned with an error it set
    scan_spin |-> FALSE,      \* a scanning loop repeated an iteration that consumed nothing
    specific |-> "",          \* the error read_number or compile_word_def has set
    rep_forms |-> <<>>,       \* one record for every interpret_rep_and that returned
    items |-> <<>>,           \* one record for every call of compile_next that returned
    low |-> 0,                \* the least length(state.code) since interpret_str was entered
    high |-> 0,               \* the greatest length(state.code) since then
    steps |-> 0 ]             \* cells executed by runners

NullError == "null"

Len_(I) == Len(I.line) - I.pos + 1

Live(I) == I.status = "ok"

None(I) == [i |-> I, has |-> FALSE, val |-> 0]
Some(I, v) == [i |-> I, has |-> TRUE, val |-> v]

\* a failed assert(): the process aborts
Abort(I, why) ==
  IF Live(I) THEN [I EXCEPT !.status = "crashed", !.obs.crash = why] ELSE I

\* state.error = msg; state.error_handled = false
SetError(I, msg) ==
  IF Live(I) THEN [I EXCEPT !.error = msg, !.error_handled = FALSE] ELSE I

(***************************************************************************)
(* Containers (FixedBuffer / vector): push, pop, length, operator[].       *)
(***************************************************************************)
push(I, n) == IF Live(I) THEN [I EXCEPT !.stack = Append(@, n)] ELSE I

\* pop() asserts len > 0
pop(I) ==
  IF ~Live(I) THEN I
  ELSE IF Len(I.stack) = 0
       THEN [Abort(I, "pop: len > 0") EXCEPT !.obs.underflow = TRUE]
       ELSE [I EXCEPT !.stack = SubSeq(@, 1, Len(@) - 1)]

\* the value a following pop(I) returns
top(I) == IF Len(I.stack) = 0 THEN 0 ELSE I.stack[Len(I.stack)]

\* stack[length(stack)-1 - nth]
stack_peek(I, nth) == I.stack[Len(I.stack) - nth]

push_code(I, v) ==
  IF Live(I)
  THEN [I EXCEPT !.code = Append(@, v),
                 !.obs.high = IF Len(I.code) + 1 > @ THEN Len(I.code) + 1 ELSE @]
  ELSE I

pop_code(I) ==
  IF ~Live(I) THEN I
  ELSE IF Len(I.code) = 0 THEN Abort(I, "pop: len > 0")
       ELSE [I EXCEPT !.code = SubSeq(@, 1, Len(@) - 1),
                      !.obs.low = IF Len(I.code) - 1 < @ THEN Len(I.code) - 1 ELSE @]

write(I, chars) == IF Live(I) THEN [I EXCEPT !.out = @ \o chars] ELSE I

(***************************************************************************)
(* Token scanner and name resolver (Interpreter, mieliepit.hpp).           *)
(***************************************************************************)
RECURSIVE SkipSpaces(_, _)
\* while (len > 0 && line[0] == ' ') { --len; ++line; }
SkipSpaces(line, p) ==
  IF p <= Len(line) /\ line[p] = SPACE THEN SkipSpaces(line, p + 1) ELSE p

RECURSIVE SkipWord(_, _)
\* while (len > 0 && line[0] != ' ') { --len; ++line; }
SkipWord(line, p) ==
  IF p <= Len(line) /\ line[p] # SPACE THEN SkipWord(line, p + 1) ELSE p

\* line, len and curr_word
Scanner(I) ==
  [pos |-> I.pos, len |-> Len_(I), text |-> I.cw_text, wlen |-> I.cw_len,
   handled |-> I.cw_handled]

\* J is I after a call of get_word: the call is added to obs.scans unless it
\* repeats the last one
ScanNoted(I, J) ==
  LET call == [pre |-> Scanner(I), post |-> Scanner(J)]
  IN IF I.obs.scans # <<>> /\ I.obs.scans[Len(I.obs.scans)] = call THEN J
     ELSE [J EXCEPT !.obs.scans = Append(@, call)]

\* get_word scanning whether or not the current lexeme has been handled
get_word_always_scan(I) ==
  IF ~Live(I) THEN I
  ELSE LET p1 == SkipSpaces(I.line, I.pos)
           p2 == SkipWord(I.line, p1)
       IN ScanNoted(I, [I EXCEPT !.pos = p2, !.cw_text = p1, !.cw_len = p2 - p1,
                                 !.cw_handled = FALSE])

\* get_word giving the empty lexeme of the end of the line the start of the
\* line as its text
get_word_end_at_start(I) ==
  IF ~Live(I) THEN I
  ELSE IF I.cw_text # 0 /\ ~I.cw_handled THEN ScanNoted(I, I)
  ELSE LET p1 == SkipSpaces(I.line, I.pos)
           p2 == SkipWord(I.line, p1)
       IN ScanNoted(I, [I EXCEPT !.pos = p2, !.cw_text = IF p2 = p1 THEN 1 ELSE p1,
                                 !.cw_len = p2 - p1, !.cw_handled = FALSE])

get_word(I) ==
  IF ~Live(I) THEN I
  ELSE IF I.cw_text # 0 /\ ~I.cw_handled THEN ScanNoted(I, I)
  ELSE LET p1 == SkipSpaces(I.line, I.pos)
           p2 == SkipWord(I.line, p1)
       IN ScanNoted(I, [I EXCEPT !.pos = p2, !.cw_text = p1, !.cw_len = p2 - p1,
                                 !.cw_handled = FALSE])

\* the characters of curr_word
Lexeme(I) == SubSeq(I.line, I.cw_text, I.cw_text + I.cw_len - 1)

\* curr_word.len == 1 && curr_word.text[0] == ch
LexemeIs(I, ch) == I.cw_len = 1 /\ I.line[I.cw_text] = ch

Handled(I) == IF Live(I) THEN [I EXCEPT !.cw_handled = TRUE] ELSE I

RECURSIVE FindNameOldest(_, _, _)
\* the scan of FindName run from the oldest entry to the newest
FindNameOldest(table, lex, i) ==
  IF i = 0 THEN -1
  ELSE LET older == FindNameOldest(table, lex, i - 1)
       IN IF older >= 0 THEN older
          ELSE IF table[i].name = lex THEN i - 1
          ELSE -1

RECURSIVE FindName(_, _, _)
\* i = length; while (i --> 0) if the name at i equals the lexeme return i
FindName(table, lex, i) ==
  IF i = 0 THEN -1
  ELSE IF table[i].name = lex THEN i - 1
  ELSE FindName(table, lex, i - 1)

read_word_idx(I) ==
  LET found(J, k) == IF k >= 0 THEN Some(Handled(J), k) ELSE None(J)
      find(J, table) ==
        IF ~Live(J) \/ J.cw_len = 0 THEN None(J)
        ELSE found(J, FindName(table, Lexeme(J), Len(table)))
      at(J) == find(J, J.words)
  IN at(get_word(I))

read_primitive_idx(I) ==
  LET found(J, k) == IF k >= 0 THEN Some(Handled(J), k) ELSE None(J)
      find(J, table) ==
        IF ~Live(J) \/ J.cw_len = 0 THEN None(J)
        ELSE found(J, FindName(table, Lexeme(J), Len(table)))
      at(J) == find(J, primitives)
  IN at(get_word(I))

read_syntax_idx(I) ==
  LET found(J, k) == IF k >= 0 THEN Some(Handled(J), k) ELSE None(J)
      find(J, table) ==
        IF ~Live(J) \/ J.cw_len = 0 THEN None(J)
        ELSE found(J, FindName(table, Lexeme(J), Len(table)))
      at(J) == find(J, syntax)
  IN at(get_word(I))

RECURSIVE ReadDigits(_, _, _)
\* the loop of read_number over the lexeme: [ok, overflow, number]
ReadDigits(lex, i, number) ==
  IF i > Len(lex) THEN [ok |-> TRUE, overflow |-> FALSE, number |-> number]
  ELSE IF lex[i] < CH_0 \/ lex[i] > CH_9
       THEN [ok |-> FALSE, overflow |-> FALSE, number |-> 0]
  ELSE LET next == (((number * 10) % Mod) + (lex[i] - CH_0)) % Mod
       IN IF next < number
          THEN [ok |-> FALSE, overflow |-> TRUE, number |-> 0]
          ELSE ReadDigits(lex, i + 1, next)

RECURSIVE DecValue(_, _)
\* the number the decimal digits lex[1..i] write
DecValue(lex, i) ==
  IF i = 0 THEN 0 ELSE DecValue(lex, i - 1) * 10 + (lex[i] - CH_0)

\* the digit string writes a number above the largest machine word
ExceedsWord(lex) == Len(lex) > MaxDigits \/ DecValue(lex, Len(lex)) > Mod - 1

\* read_number marking the lexeme handled before its digits are tested
read_number_handled_first(I) ==
  LET read(J, r) ==
        IF r.ok
        THEN Some([Handled(J) EXCEPT !.obs.big_num = @ \/ ExceedsWord(Lexeme(J))], r.number)
        ELSE IF r.overflow THEN None(SetError(Handled(J), "Error: Number number too large!"))
        ELSE None(Handled(J))
      at(J) == IF ~Live(J) THEN None(J) ELSE read(J, ReadDigits(Lexeme(J), 1, 0))
  IN at(get_word(I))

read_number(I) ==
  LET read(J, r) ==
        IF r.ok
        THEN Some([Handled(J) EXCEPT !.obs.big_num = @ \/ ExceedsWord(Lexeme(J))], r.number)
        ELSE IF r.overflow
        THEN None([SetError(J, "Error: Number number too large!")
                     EXCEPT !.obs.specific = "Error: Number number too large!"])
        ELSE None(J)
      at(J) == IF ~Live(J) THEN None(J) ELSE read(J, ReadDigits(Lexeme(J), 1, 0))
  IN at(get_word(I))

\* read_value with the primitive table consulted before the word store
read_value_primitive_first(I) ==
  LET from_number(n) ==
        IF n.has THEN Some(n.i, new_number(n.val))
        ELSE None(SetError(n.i, "Error: undefined word"))
      from_syntax(s) ==
        IF s.has THEN Some(s.i, new_syntax(s.val))
        ELSE from_number(read_number(s.i))
      from_word(w) ==
        IF w.has THEN Some(w.i, new_word(w.val))
        ELSE from_syntax(read_syntax_idx(w.i))
      from_primitive(p) ==
        IF p.has THEN Some(p.i, new_primitive(p.val))
        ELSE from_word(read_word_idx(p.i))
  IN IF ~Live(I) THEN None(I)
     ELSE from_primitive(read_primitive_idx(I))

read_value(I) ==
  LET seen(r) == [r EXCEPT !.i.obs.empty_val = @ \/ r.i.cw_len = 0]
      \* number = read_number(), after the three tables gave nothing
      from_number(n) ==
        IF n.has THEN seen(Some(n.i, new_number(n.val)))
        ELSE None(SetError(n.i, "Error: undefined word"))
      \* syntax_idx = read_syntax_idx()
      from_syntax(s) ==
        IF s.has THEN seen(Some(s.i, new_syntax(s.val)))
        ELSE from_number(read_number(s.i))
      \* primitive_idx = read_primitive_idx()
      from_primitive(p) ==
        IF p.has THEN seen(Some(p.i, new_primitive(p.val)))
        ELSE from_syntax(read_syntax_idx(p.i))
      \* word_idx = read_word_idx()
      from_word(w) ==
        IF w.has THEN seen(Some(w.i, new_word(w.val)))
        ELSE from_primitive(read_primitive_idx(w.i))
  IN IF ~Live(I) THEN None(I)
     ELSE from_word(read_word_idx(I))

(***************************************************************************)
(* Primitives (the primitives array of mieliepit.cpp).                     *)
(***************************************************************************)
\* check_stack_len_ge(fun, expr): the error text when the check fails (the
\* backquotes of the C++ texts are written as ' in the model's strings)
StackLenGe(fun, expr) ==
  "Error in '" \o fun \o "': stack length should be >= " \o expr

S_EMPTY == <<101, 109, 112, 116, 121, 46>>
S_DOTS == <<46, 46, 46, 32>>
\* the first line of guide_text (the rest of the text is not modelled)
guide_text ==
  <<77, 105, 101, 108, 105, 101, 112, 105, 116, 32, 105, 115, 32, 97, 32, 115,
    116, 97, 99, 107, 45, 98, 97, 115, 101, 100, 32, 112, 114, 111, 103, 114,
    97, 109, 109, 105, 110, 103, 32, 108, 97, 110, 103, 117, 97, 103, 101, 46,
    NEWLINE>>

RECURSIVE ShowFrom(_, _)
\* size_t i = amt; while (i --> 0) print stack_peek(state.stack, i).sign, " "
ShowFrom(I, i) ==
  IF i = 0 THEN <<>>
  ELSE DecSigned(Sign(stack_peek(I, i - 1))) \o <<SPACE>> \o ShowFrom(I, i - 1)

\* PW_ShowStack writing the dots from 16 elements on
PW_ShowStack_dots_at_16(I) ==
  IF Len(I.stack) = 0 THEN write(I, S_EMPTY \o <<NEWLINE>>)
  ELSE LET amt == IF Len(I.stack) < 16 THEN Len(I.stack) ELSE 16
           dots == IF Len(I.stack) >= 16 THEN S_DOTS ELSE <<>>
       IN write(I, dots \o ShowFrom(I, amt) \o <<NEWLINE>>)

PW_ShowStack(I) ==
  IF Len(I.stack) = 0 THEN write(I, S_EMPTY \o <<NEWLINE>>)
  ELSE LET amt == IF Len(I.stack) < 16 THEN Len(I.stack) ELSE 16
           dots == IF Len(I.stack) > 16 THEN S_DOTS ELSE <<>>
       IN write(I, dots \o ShowFrom(I, amt) \o <<NEWLINE>>)

PW_StackLen(I) == push(I, Len(I.stack) % Mod)

PW_Dup(I) ==
  IF Len(I.stack) < 1 THEN SetError(I, StackLenGe("dup", "1"))
  ELSE push(I, stack_peek(I, 0))

PW_Swap(I) ==
  IF Len(I.stack) < 2 THEN SetError(I, StackLenGe("swap", "2"))
  ELSE LET top_ == stack_peek(I, 0)
           under_top == stack_peek(I, 1)
       IN push(push(pop(pop(I)), top_), under_top)

PW_Rot(I) ==
  IF Len(I.stack) < 3 THEN SetError(I, StackLenGe("rot", "3"))
  ELSE LET c == stack_peek(I, 0)
           b == stack_peek(I, 1)
           a == stack_peek(I, 2)
       IN push(push(push(pop(pop(pop(I))), b), c), a)

PW_Unrot(I) ==
  IF Len(I.stack) < 3 THEN SetError(I, StackLenGe("rot", "3"))
  ELSE LET c == stack_peek(I, 0)
           b == stack_peek(I, 1)
           a == stack_peek(I, 2)
       IN push(push(push(pop(pop(pop(I))), c), a), b)

PW_Rev(I) ==
  IF Len(I.stack) < 3 THEN SetError(I, StackLenGe("rev", "3"))
  ELSE LET c == stack_peek(I, 0)
           b == stack_peek(I, 1)
           a == stack_peek(I, 2)
       IN push(push(push(pop(pop(pop(I))), c), b), a)

PW_Drop(I) ==
  IF Len(I.stack) < 1 THEN SetError(I, StackLenGe("drop", "1"))
  ELSE pop(I)

PW_RevN(I) ==
  IF Len(I.stack) < 1 THEN SetError(I, StackLenGe("rev_n", "1"))
  ELSE LET n == top(I)
           J == pop(I)
           m == Len(J.stack)
       IN IF m < n THEN SetError(J, StackLenGe("rot_n", "n"))
          ELSE [J EXCEPT !.stack =
                  [k \in 1..m |-> IF k > m - n THEN J.stack[(m - n) + (m + 1 - k)]
                                  ELSE J.stack[k]]]

PW_Nth(I) ==
  IF Len(I.stack) < 1 THEN SetError(I, StackLenGe("nth", "1"))
  ELSE LET n == top(I)
           J == pop(I)
       IN IF Len(J.stack) < n THEN SetError(J, StackLenGe("nth", "n"))
          ELSE IF n = 0 THEN SetError(J, "Error in 'nth': n must be nonzero")
          ELSE push(J, stack_peek(J, n - 1))

PW_Inc(I) ==
  IF Len(I.stack) < 1 THEN SetError(I, StackLenGe("inc", "1"))
  ELSE [I EXCEPT !.stack[Len(I.stack)] = (@ + 1) % Mod]

PW_Dec(I) ==
  IF Len(I.stack) < 1 THEN SetError(I, StackLenGe("dec", "1"))
  ELSE [I EXCEPT !.stack[Len(I.stack)] = (@ + Mod - 1) % Mod]

PW_Add(I) ==
  IF Len(I.stack) < 2 THEN SetError(I, StackLenGe("+", "2"))
  ELSE push(pop(pop(I)), (stack_peek(I, 0) + stack_peek(I, 1)) % Mod)

\* the product of the signed views, which wraps to the product modulo 2^Width
PW_Mul(I) ==
  IF Len(I.stack) < 2 THEN SetError(I, StackLenGe("*", "2"))
  ELSE push(pop(pop(I)), MulMod(stack_peek(I, 0), stack_peek(I, 1)))

\* a.sign / b.sign; a zero divisor (and the one overflowing quotient) traps
PW_Div(I) ==
  IF Len(I.stack) < 2 THEN SetError(I, StackLenGe("/", "2"))
  ELSE LET b == Sign(stack_peek(I, 0))
           a == Sign(stack_peek(I, 1))
       IN IF b = 0 \/ (b = -1 /\ a = -(Mod \div 2))
          THEN Abort(pop(pop(I)), "SIGFPE")
          ELSE push(pop(pop(I)), Pos(TruncDiv(a, b)))

\* the shift count at and above which shl / shr leave zero
SHIFT_LIMIT == 32

\* the bits of size_t: 32 on the kernel build, 64 on the hosted one
WordWidths == {32, 64}
\* largest shift count tried
MaxShift == 66

\* shl on words of w bits given by their one bits: the count top_ is below
\* SHIFT_LIMIT <= w where  under_top << top  is evaluated
shl_word(w, under_top, top_) ==
  IF top_ >= SHIFT_LIMIT THEN {}
  ELSE {i + top_ : i \in under_top} \cap 0..(w - 1)

\* shr on words given by their one bits
shr_word(under_top, top_) ==
  IF top_ >= SHIFT_LIMIT THEN {}
  ELSE {i - top_ : i \in {j \in under_top : j >= top_}}

PW_Shl(I) ==
  IF Len(I.stack) < 2 THEN SetError(I, StackLenGe("shl", "2"))
  ELSE LET top_ == stack_peek(I, 0)
           under_top == stack_peek(I, 1)
       IN IF top_ >= SHIFT_LIMIT THEN push(pop(pop(I)), 0)
          ELSE push(pop(pop(I)), Shl(under_top, top_))

PW_Shr(I) ==
  IF Len(I.stack) < 2 THEN SetError(I, StackLenGe("shr", "2"))
  ELSE LET top_ == stack_peek(I, 0)
           under_top == stack_peek(I, 1)
       IN IF top_ >= SHIFT_LIMIT THEN push(pop(pop(I)), 0)
          ELSE push(pop(pop(I)), Shr(under_top, top_))

PW_Or(I) ==
  IF Len(I.stack) < 2 THEN SetError(I, StackLenGe("or", "2"))
  ELSE push(pop(pop(I)), BitOp("or", stack_peek(I, 0), stack_peek(I, 1), Width))

PW_And(I) ==
  IF Len(I.stack) < 2 THEN SetError(I, StackLenGe("and", "2"))
  ELSE push(pop(pop(I)), BitOp("and", stack_peek(I, 0), stack_peek(I, 1), Width))

PW_Xor(I) ==
  IF Len(I.stack) < 2 THEN SetError(I, StackLenGe("xor", "2"))
  ELSE push(pop(pop(I)), BitOp("xor", stack_peek(I, 0), stack_peek(I, 1), Width))

PW_Not(I) ==
  IF Len(I.stack) < 1 THEN SetError(I, StackLenGe("not", "1"))
  ELSE push(pop(I), Mod - 1 - stack_peek(I, 0))

PW_Eq(I) ==
  IF Len(I.stack) < 2 THEN SetError(I, StackLenGe("=?", "2"))
  ELSE push(pop(pop(I)), IF stack_peek(I, 0) = stack_peek(I, 1) THEN Pos(-1) ELSE 0)

\* PW_Lt comparing the unsigned views
PW_Lt_unsigned(I) ==
  IF Len(I.stack) < 2 THEN SetError(I, StackLenGe("=?", "2"))
  ELSE LET b == stack_peek(I, 0)
           a == stack_peek(I, 1)
       IN push(pop(pop(I)), IF a < b THEN Pos(-1) ELSE 0)

PW_Lt(I) ==
  IF Len(I.stack) < 2 THEN SetError(I, StackLenGe("=?", "2"))
  ELSE LET b == Sign(stack_peek(I, 0))
           a == Sign(stack_peek(I, 1))
       IN push(pop(pop(I)), IF a < b THEN Pos(-1) ELSE 0)

PW_True(I) == push(I, Pos(-1))

PW_False(I) == push(I, 0)

\* PW_Print leaving the printed element on the stack
PW_Print_keep(I) ==
  IF Len(I.stack) < 1 THEN SetError(I, StackLenGe("print", "1"))
  ELSE write(I, DecSigned(Sign(stack_peek(I, 0))) \o <<SPACE>>)

PW_Print(I) ==
  IF Len(I.stack) < 1 THEN SetError(I, StackLenGe("print", "1"))
  ELSE write(pop(I), DecSigned(Sign(stack_peek(I, 0))) \o <<SPACE>>)

PW_Pstr(I) ==
  IF Len(I.stack) < 1 THEN SetError(I, StackLenGe("pstr", "1"))
  ELSE write(pop(I), UntilNul(BytesOf(stack_peek(I, 0), WordBytes)))

RECURSIVE PopN(_, _)
\* for (size_t i = 0; i < n; ++i) pop(state.stack);
PopN(I, n) == IF n = 0 THEN I ELSE PopN(pop(I), n - 1)

\* writestring((const char*)&stack_peek(state.stack, n-1)): the bytes of the
\* n words, followed in memory by the slot n was popped from
PW_PrintString(I) ==
  IF Len(I.stack) < 1 THEN SetError(I, StackLenGe("print_string", "1"))
  ELSE LET n == top(I)
           J == pop(I)
           m == Len(J.stack)
           mem == Flatten([k \in 1..n |-> BytesOf(J.stack[m - n + k], WordBytes)])
                    \o BytesOf(n, WordBytes)
       IN IF m < n THEN SetError(J, StackLenGe("print_string", "n"))
          ELSE IF n = 0
               \* stack_peek(stack, n-1) is stack[length], outside the stack
               THEN [Abort(J, "operator[]: idx < len") EXCEPT !.obs.underflow = TRUE]
          ELSE PopN(write(J, UntilNul(mem)), n)

\* quit_primitive_fn
PW_Quit(I) == IF Live(I) THEN [I EXCEPT !.should_quit = TRUE] ELSE I

RECURSIVE JoinNames(_, _)
\* the names of table[k..], separated by single spaces
JoinNames(table, k) ==
  IF k > Len(table) THEN <<>>
  ELSE (IF k > 1 THEN <<SPACE>> ELSE <<>>) \o table[k].name \o JoinNames(table, k + 1)

PW_Syntax(I) == write(I, JoinNames(syntax, 1) \o <<NEWLINE>>)

PW_Primitives(I) == write(I, JoinNames(primitives, 1) \o <<NEWLINE>>)

RECURSIVE WordsFrom(_, _)
\* size_t i = length(words); while (i --> 0) { name; if (i) ' ' }
WordsFrom(I, i) ==
  IF i = 0 THEN <<>>
  ELSE I.words[i].name \o (IF i - 1 # 0 THEN <<SPACE>> ELSE <<>>) \o WordsFrom(I, i - 1)

PW_Words(I) == write(I, WordsFrom(I, Len(I.words)) \o <<NEWLINE>>)

\* guide_primitive_fn
PW_Guide(I) == write(I, guide_text)

\* primitive.fun(state), for the primitive with designator id
primitive_fun(id, I) ==
  CASE id = "PW_ShowStack" -> PW_ShowStack(I)
    [] id = "PW_StackLen" -> PW_StackLen(I)
    [] id = "PW_Dup" -> PW_Dup(I)
    [] id = "PW_Swap" -> PW_Swap(I)
    [] id = "PW_Rot" -> PW_Rot(I)
    [] id = "PW_Unrot" -> PW_Unrot(I)
    [] id = "PW_Rev" -> PW_Rev(I)
    [] id = "PW_Drop" -> PW_Drop(I)
    [] id = "PW_RevN" -> PW_RevN(I)
    [] id = "PW_Nth" -> PW_Nth(I)
    [] id = "PW_Inc" -> PW_Inc(I)
    [] id = "PW_Dec" -> PW_Dec(I)
    [] id = "PW_Add" -> PW_Add(I)
    [] id = "PW_Mul" -> PW_Mul(I)
    [] id = "PW_Div" -> PW_Div(I)
    [] id = "PW_Shl" -> PW_Shl(I)
    [] id = "PW_Shr" -> PW_Shr(I)
    [] id = "PW_Or" -> PW_Or(I)
    [] id = "PW_And" -> PW_And(I)
    [] id = "PW_Xor" -> PW_Xor(I)
    [] id = "PW_Not" -> PW_Not(I)
    [] id = "PW_Eq" -> PW_Eq(I)
    [] id = "PW_Lt" -> PW_Lt(I)
    [] id = "PW_True" -> PW_True(I)
    [] id = "PW_False" -> PW_False(I)
    [] id = "PW_Print" -> PW_Print(I)
    [] id = "PW_Pstr" -> PW_Pstr(I)
    [] id = "PW_PrintString" -> PW_PrintString(I)
    [] id = "PW_Exit" -> PW_Quit(I)
    [] id = "PW_Quit" -> PW_Quit(I)
    [] id = "PW_Syntax" -> PW_Syntax(I)
    [] id = "PW_Primitives" -> PW_Primitives(I)
    [] id = "PW_Words" -> PW_Words(I)
    [] id = "PW_Guide" -> PW_Guide(I)

\* run_primitive_idx: primitives[primitive_idx].fun(state)
run_primitive_idx(primitive_idx, I) ==
  LET \* the primitive was called in I and has returned in J
      returned(J) ==
        IF Live(J) /\ I.error = NullError /\ J.error # NullError
        THEN [J EXCEPT !.obs.prim_fails =
                Append(@, [prim |-> primitives[primitive_idx + 1].id, error |-> J.error,
                           kept |-> J.stack = I.stack])]
        ELSE J
  IN returned(primitive_fun(primitives[primitive_idx + 1].id, I))

(***************************************************************************)
(* Runner: executes a slice of the code buffer.  A runner is               *)
(* [i, initial, curr]: the program state and two (code, len) cursors;      *)
(* code is the index, counted from 0, of the cell the cursor points to.    *)
(***************************************************************************)
\* Runner runner = { { .code = &state.code[code_pos], .len = len }, state };
\* operator[] asserts idx < len
NewRunner(I, code_pos, len) ==
  [i |-> IF code_pos < Len(I.code) THEN I ELSE Abort(I, "operator[]: idx < len"),
   initial |-> [code |-> code_pos, len |-> len],
   curr |-> [code |-> code_pos, len |-> len],
   \* history: this runner has executed return_rf
   returned |-> FALSE,
   \* history: this runner was made by interpret_rep_and, not for a word
   outside |-> FALSE]

\* Runner::read_value: [r, has, val]
Runner_read_value(R) ==
  IF ~Live(R.i) \/ R.curr.len = 0 THEN [r |-> R, has |-> FALSE, val |-> NoValue]
  ELSE [r |-> [R EXCEPT !.curr.code = @ + 1, !.curr.len = @ - 1],
        has |-> TRUE, val |-> R.i.code[R.curr.code + 1]]

\* the strings of mieliepit.cpp's raw functions and print_definition
RawFunctionName(fp) ==
  CASE fp = "recurse" -> <<114, 101, 99>>
    [] fp = "return_rf" -> <<114, 101, 116>>
    [] fp = "skip" -> <<63>>
    [] fp = "rep_and" -> <<114, 101, 112, 95, 97, 110, 100>>
    [] fp = "print_raw" ->
         <<60, 105, 110, 116, 101, 114, 110, 97, 108, 58, 112, 114, 105, 110, 116, 95, 114, 97, 119, 62>>
    [] fp = "print_definition_rf" ->
         <<60, 105, 110, 116, 101, 114, 110, 97, 108, 58, 112, 114, 105, 110, 116, 95, 100, 101, 102,
           105, 110, 105, 116, 105, 111, 110, 62>>

\* the NUL-terminated string at an address emitted by compile_help / compile_def
StringAt(I, addr) ==
  CASE addr \in 1..Len(Literals) -> Literals[addr]
    [] addr \in 100..(99 + Len(primitives)) -> primitives[addr - 99].name
    [] addr \in 200..(199 + Len(primitives)) -> <<>>
    [] addr \in 300..(299 + Len(syntax)) -> syntax[addr - 299].name
    [] addr \in 400..(399 + Len(syntax)) -> <<>>
    [] addr \in 500..(499 + Len(I.words)) -> I.words[addr - 499].name
    [] addr \in 600..(599 + Len(I.words)) -> I.words[addr - 599].desc
    [] OTHER -> <<>>

RECURSIVE PrintCells(_, _, _)
\* the loop of print_definition over the cells i .. end-1 of the code buffer
PrintCells(I, i, end) ==
  IF i >= end \/ ~Live(I) THEN I
  ELSE LET value == I.code[i + 1]
           J == CASE value.type = "Word" ->
                       IF value.v < Len(I.words)
                       THEN write(I, <<SPACE>> \o I.words[value.v + 1].name)
                       ELSE Abort(I, "value.word_idx < length(state.words)")
                  [] value.type = "Primitive" ->
                       write(I, <<SPACE>> \o primitives[value.v + 1].name)
                  [] value.type = "Syntax" ->
                       SetError(I, "Error: syntax expression shouldn't be present in compiled word")
                  [] value.type = "Number" ->
                       write(I, <<SPACE>> \o DecDigits(value.v))
                  [] value.type = "RawFunction" ->
                       write(I, <<SPACE>> \o RawFunctionName(value.v))
       IN PrintCells(J, i + 1, end)

print_definition(I, word_idx) ==
  IF ~Live(I) THEN I
  ELSE IF ~(word_idx < Len(I.words)) THEN Abort(I, "word_idx < length(state.words)")
  ELSE LET word == I.words[word_idx + 1]
           J == write(I, <<58, SPACE>> \o word.name \o <<SPACE, CH_LPAREN, SPACE>>
                         \o word.desc \o <<SPACE, CH_RPAREN>>)
       IN IF ~(word.code_pos + word.code_len <= Len(I.code))
          THEN Abort(J, "word.code_pos + word.code_len <= length(state.code)")
          ELSE write(PrintCells(J, word.code_pos, word.code_pos + word.code_len),
                     <<SPACE, CH_SEMI>>)

\* run_number
run_number(number, I) == push(I, number)

RECURSIVE run_word_idx(_, _)
RECURSIVE Runner_run_next(_)
RECURSIVE RunLoop(_)
RECURSIVE RepBody(_, _)
RECURSIVE RepLoop(_, _, _, _)

\* recurse leaving the program counter where it is
recurse_stay(R) == [R EXCEPT !.i.obs.ctl_outside = @ \/ R.outside]

\* RawFunction recurse
recurse(R) == [R EXCEPT !.curr = R.initial, !.i.obs.ctl_outside = @ \/ R.outside]

\* RawFunction return_rf
return_rf(R) ==
  [R EXCEPT !.curr.code = @ + R.curr.len, !.curr.len = 0, !.returned = TRUE,
            !.i.obs.ctl_outside = @ \/ R.outside]

\* skip advancing over the item whatever the flag is
skip_always(R) ==
  LET skip_len == top(R.i)
      I1 == pop(R.i)
      b == top(I1)
      I2 == pop(I1)
      noted(after) ==
        [I2 EXCEPT !.obs.skips =
           Append(@, [len |-> skip_len, b |-> b, start |-> R.curr.code,
                      left |-> R.curr.len, after |-> after,
                      t |-> Len(R.i.obs.trace), err |-> R.i.error # NullError])]
  IN IF ~Live(I2) THEN [R EXCEPT !.i = I2]
     ELSE IF skip_len <= R.curr.len
          THEN [R EXCEPT !.i = noted(R.curr.code + skip_len),
                         !.curr.code = @ + skip_len,
                         !.curr.len = @ - skip_len]
          ELSE [R EXCEPT !.i = Abort(I2, "skip_len <= runner.curr.len")]

\* RawFunction skip
skip(R) ==
  LET skip_len == top(R.i)
      I1 == pop(R.i)
      b == top(I1)
      I2 == pop(I1)
      noted(after) ==
        [I2 EXCEPT !.obs.skips =
           Append(@, [len |-> skip_len, b |-> b, start |-> R.curr.code,
                      left |-> R.curr.len, after |-> after,
                      t |-> Len(R.i.obs.trace), err |-> R.i.error # NullError])]
  IN IF ~Live(I2) THEN [R EXCEPT !.i = I2]
     ELSE IF b = 0
          THEN IF skip_len <= R.curr.len
               THEN [R EXCEPT !.i = noted(R.curr.code + skip_len),
                              !.curr.code = @ + skip_len,
                              !.curr.len = @ - skip_len]
               ELSE [R EXCEPT !.i = Abort(I2, "skip_len <= runner.curr.len")]
          ELSE [R EXCEPT !.i = noted(R.curr.code)]

\* while (runner.curr.code < rep_until) runner.run_next();
RepBody(R, rep_until) ==
  IF ~Live(R.i) \/ ~(R.curr.code < rep_until) THEN R
  ELSE IF R.curr.len = 0
       \* run_next reads nothing and changes nothing: the loop spins
       THEN [R EXCEPT !.i.status = "hung"]
  ELSE RepBody(Runner_run_next(R), rep_until)

\* for (size_t i = 0; i < reps; ++i) { body; assert; runner.curr = start_at; }
RepLoop(R, i, reps, q) ==
  IF ~Live(R.i) \/ ~(i < reps) THEN R
  ELSE LET ran(B) ==
             IF ~Live(B.i) THEN B
             ELSE IF B.curr.code # q.rep_until
                  THEN [B EXCEPT !.i = [Abort(B.i, "runner.curr.code == rep_until")
                                          EXCEPT !.obs.ret_late = @ \/ B.returned]]
             \* an empty body: the remaining repetitions change nothing either
             ELSE IF B = R /\ R.curr = q.start_at THEN R
             ELSE RepLoop([B EXCEPT !.curr = q.start_at], i + 1, reps, q)
       IN ran(RepBody(R, q.rep_until))

\* the len cells from position pos on are numbers, primitives and words
PlainCells(cells, pos, len) ==
  /\ pos + len <= Len(cells)
  /\ \A j \in (pos + 1)..(pos + len) : cells[j].type \in {"Number", "Primitive", "Word"}

\* rep_and leaving the program counter at the first cell of the body
rep_and_no_advance(R) ==
  LET rep_len == top(R.i)
      I1 == pop(R.i)
      rep_until == R.curr.code + rep_len
      reps == top(I1)
      I2 == pop(I1)
      start_at == R.curr
      looped(L) ==
        IF ~Live(L.i) THEN L
        ELSE [L EXCEPT !.i = [push(L.i, reps) EXCEPT !.obs.reps =
                                Append(@, [reps |-> reps, rep_len |-> rep_len,
                                           start |-> start_at.code,
                                           plain |-> PlainCells(R.i.code, start_at.code, rep_len),
                                           t0 |-> Len(R.i.obs.trace),
                                           t1 |-> Len(L.i.obs.trace),
                                           after |-> L.curr.code,
                                           top |-> top(push(L.i, reps))])]]
  IN looped(RepLoop([R EXCEPT !.i = I2], 0, reps,
                    [rep_until |-> rep_until, start_at |-> start_at]))

\* RawFunction rep_and
rep_and(R) ==
  LET rep_len == top(R.i)
      I1 == pop(R.i)
      rep_until == R.curr.code + rep_len
      reps == top(I1)
      I2 == pop(I1)
      start_at == R.curr
      \* what follows the for loop
      looped(L) ==
        IF ~Live(L.i) THEN L
        ELSE IF ~(rep_len <= L.curr.len)
             THEN [L EXCEPT !.i = Abort(L.i, "rep_len <= runner.curr.len")]
        ELSE [L EXCEPT !.curr.code = @ + rep_len, !.curr.len = @ - rep_len,
                       !.i = [push(L.i, reps) EXCEPT !.obs.reps =
                                Append(@, [reps |-> reps, rep_len |-> rep_len,
                                           start |-> start_at.code,
                                           plain |-> PlainCells(R.i.code, start_at.code, rep_len),
                                           t0 |-> Len(R.i.obs.trace),
                                           t1 |-> Len(L.i.obs.trace),
                                           after |-> L.curr.code + rep_len,
                                           top |-> top(push(L.i, reps))])]]
  IN looped(RepLoop([R EXCEPT !.i = I2], 0, reps,
                    [rep_until |-> rep_until, start_at |-> start_at]))

\* RawFunction print_raw
print_raw(R) ==
  LET str == top(R.i)
      I1 == pop(R.i)
  IN [R EXCEPT !.i = write(I1, StringAt(I1, str))]

\* RawFunction print_definition_rf
print_definition_rf(R) ==
  LET word_idx == top(R.i)
      I1 == pop(R.i)
  IN [R EXCEPT !.i = print_definition(I1, word_idx)]

\* run_function_ptr: function_ptr->run(runner)
run_function_ptr(function_ptr, R) ==
  CASE function_ptr = "recurse" -> recurse(R)
    [] function_ptr = "return_rf" -> return_rf(R)
    [] function_ptr = "skip" -> skip(R)
    [] function_ptr = "rep_and" -> rep_and(R)
    [] function_ptr = "print_raw" -> print_raw(R)
    [] function_ptr = "print_definition_rf" -> print_definition_rf(R)

\* Runner::run_value
Runner_run_value(value, R) ==
  CASE value.type = "Word" -> [R EXCEPT !.i = run_word_idx(value.v, R.i)]
    [] value.type = "Primitive" -> [R EXCEPT !.i = run_primitive_idx(value.v, R.i)]
    [] value.type = "Syntax" ->
         [R EXCEPT !.i = SetError(R.i, "Error: cannot run compiled syntax expression")]
    [] value.type = "Number" -> [R EXCEPT !.i = run_number(value.v, R.i)]
    [] value.type = "RawFunction" -> run_function_ptr(value.v, R)

\* Runner::run_next; each cell run is counted, and the run is cut off after
\* MaxSteps cells
Runner_run_next(R) ==
  LET rd == Runner_read_value(R)
      seen == [rd.r EXCEPT !.i.obs.steps = @ + 1,
                           !.i.obs.trace = Append(@, R.curr.code),
                           !.i.obs.ret_late = @ \/ R.returned,
                           !.i.obs.late_run = @ \/ R.i.error # NullError]
  IN IF ~Live(R.i) THEN R
     ELSE IF ~rd.has THEN rd.r
     ELSE IF R.i.obs.steps >= MaxSteps THEN [R EXCEPT !.i.status = "cut"]
     ELSE Runner_run_value(rd.val, seen)

\* while (!state.error && runner.curr.len > 0) runner.run_next();
RunLoop(R) ==
  IF Live(R.i) /\ R.i.error = NullError /\ R.curr.len > 0
  THEN RunLoop(Runner_run_next(R))
  ELSE R

\* run_word_idx(word_idx, state)
run_word_idx(word_idx, I) ==
  IF ~Live(I) THEN I
  ELSE IF ~(word_idx < Len(I.words)) THEN Abort(I, "word_idx < length(state.words)")
  ELSE LET word == I.words[word_idx + 1]
       IN IF ~(word.code_pos <= Len(I.code))
          THEN Abort(I, "word.code_pos <= length(state.code)")
          ELSE IF ~(word.code_pos + word.code_len <= Len(I.code))
          THEN Abort(I, "word.code_pos + word.code_len <= length(state.code)")
          ELSE LET left(J) == IF Live(J) THEN [J EXCEPT !.obs.depth = @ - 1] ELSE J
                   ran(J) ==
                     IF Live(J) /\ J.obs.late_run /\ ~I.obs.late_run
                     THEN left([J EXCEPT !.obs.late_word = TRUE])
                     ELSE left(J)
                   entered ==
                     [I EXCEPT !.obs.depth = @ + 1,
                               !.obs.depth_max = IF I.obs.depth + 1 > @
                                                 THEN I.obs.depth + 1 ELSE @,
                               !.obs.too_deep = @ \/ I.obs.depth + 1 > Len(I.words)]
               IN ran(RunLoop(NewRunner(entered, word.code_pos, word.code_len)).i)

(***************************************************************************)
(* Interpreter dispatch and the syntax forms (mieliepit.cpp).              *)
(***************************************************************************)
RECURSIVE Interpreter_run_next(_)
RECURSIVE Interpreter_compile_next(_)
RECURSIVE Interpreter_ignore_next(_)
RECURSIVE run_syntax_idx(_, _)
RECURSIVE compile_syntax_idx(_, _)
RECURSIVE ignore_syntax_idx(_, _)
RECURSIVE syntax_run(_, _)
RECURSIVE syntax_compile(_, _)
RECURSIVE syntax_ignore(_, _)

RECURSIVE ignore_comment(_)
ignore_comment(I) ==
  LET at(J) ==
        IF ~Live(J) THEN J
        ELSE IF LexemeIs(J, CH_RPAREN) THEN Handled(J)
        ELSE IF J.cw_len = 0 THEN SetError(J, "Error: unclosed comment")
        ELSE ignore_comment(Handled(J))
  IN at(get_word(I))

\* syntax[SC_Comment].compile
compile_comment(I) == Some(ignore_comment(I), 0)

constexpr_substr_max_width == WordBytes

RECURSIVE ParseStringLoop(_, _)
\* the while (true) of parse_string; end is the index just after the span
ParseStringLoop(I, end) ==
  LET at(J) ==
        IF ~Live(J) THEN [i |-> J, end |-> end]
        ELSE IF LexemeIs(J, CH_QUOTE) THEN [i |-> J, end |-> end]
        ELSE IF J.cw_len = 0
             THEN [i |-> SetError(J, "Error: unclosed string"), end |-> end]
        ELSE ParseStringLoop(J, J.cw_text + J.cw_len)
  IN at(Handled(get_word(I)))

\* len & (substr_max_width - 1)
LenAndWidthMask(len) == BitOp("and", len, constexpr_substr_max_width - 1, Width)

\* parse_string without the word for the bytes left over by the division
parse_string_whole_words(I) ==
  LET words(len) == len \div constexpr_substr_max_width
      parsed(K, start, len) == [i |-> K, start |-> start, len |-> len, words |-> words(len)]
      looped(r, start) == parsed(r.i, start, r.end - start)
      at(J) == looped(ParseStringLoop(J, J.cw_text + J.cw_len), J.cw_text)
  IN at(Handled(get_word(I)))

\* parse_string: [i, start, len, words]
parse_string(I) ==
  LET words(len) == (len \div constexpr_substr_max_width)
                      + (IF LenAndWidthMask(len) # 0 THEN 1 ELSE 0)
      parsed(K, start, len) == [i |-> K, start |-> start, len |-> len, words |-> words(len)]
      looped(r, start) == parsed(r.i, start, r.end - start)
      at(J) == looped(ParseStringLoop(J, J.cw_text + J.cw_len), J.cw_text)
  IN at(Handled(get_word(I)))

RECURSIVE PackBytes(_, _, _, _)
\* while (j --> lo) { num <<= 8; num |= text[j]; } over the 0-based offsets
\* lo .. j-1 of the characters starting at index start of the line
PackBytes(line, start, lo, j) ==
  IF j <= lo THEN 0
  ELSE PackBytes(line, start, lo + 1, j) * 256 + line[start + lo]

\* the number pushed for word i of the string
StringWord(I, str, i) ==
  LET lo == i * constexpr_substr_max_width
      j0 == lo + constexpr_substr_max_width
      j == IF j0 > str.len THEN str.len ELSE j0
  IN PackBytes(I.line, str.start, lo, j) % Mod

RECURSIVE PushStringWords(_, _, _, _)
PushStringWords(I, str, i, to_code) ==
  IF i >= str.words THEN I
  ELSE PushStringWords(
         IF to_code THEN push_code(I, new_number(StringWord(I, str, i)))
         ELSE push(I, StringWord(I, str, i)),
         str, i + 1, to_code)

interpret_string(I) ==
  LET parsed(str) ==
        IF str.i.error # NullError THEN str.i
        ELSE push(PushStringWords(str.i, str, 0, FALSE), str.words % Mod)
  IN parsed(parse_string(I))

ignore_string(I) == parse_string(I).i

compile_string(I) ==
  LET pushed(J, start_len) == Some(J, Len(J.code) - start_len)
      parsed(str) ==
        IF str.i.error # NullError THEN None(str.i)
        ELSE pushed(push_code(PushStringWords(str.i, str, 0, TRUE),
                              new_number(str.words % Mod)),
                    Len(str.i.code))
  IN parsed(parse_string(I))

\* the longest token parse_hex accepts
HEX_MAX_LEN == 8

RECURSIVE HexDigits(_, _, _)
\* the loop of parse_hex: [ok, num]
HexDigits(lex, i, num) ==
  IF i > Len(lex) THEN [ok |-> TRUE, num |-> num]
  ELSE LET ch == lex[i]
       IN IF (ch < CH_0 \/ CH_9 < ch) /\ (ch < CH_a \/ CH_z < ch) /\ (ch < CH_A \/ CH_Z < ch)
          THEN [ok |-> FALSE, num |-> 0]
          ELSE LET shifted == (num * 16) % Mod
                   digit == IF CH_0 <= ch /\ ch <= CH_9 THEN ch - CH_0
                            ELSE IF CH_a <= ch /\ ch <= CH_z THEN ch - CH_a + 10
                            ELSE ch - CH_A + 10
               IN HexDigits(lex, i + 1, BitOp("or", shifted, digit, Width))

\* parse_hex: [i, val]
parse_hex(I) ==
  LET noted(J, r) ==
        [r EXCEPT !.i.obs.hexes =
           Append(@, [lex |-> Lexeme(J), ok |-> r.i.error = NullError, val |-> r.val])]
      digits(J, r) ==
        IF ~r.ok
        THEN [i |-> SetError(J, "Error: expected hex number to exist of only hex digits"),
              val |-> 0]
        ELSE [i |-> Handled(J), val |-> r.num]
      at(J) ==
        IF ~Live(J) THEN [i |-> J, val |-> 0]
        ELSE IF J.cw_len = 0
        THEN noted(J, [i |-> SetError(J, "Error: expected hex number after 'hex'"), val |-> 0])
        ELSE IF J.cw_len > HEX_MAX_LEN
        THEN noted(J, [i |-> SetError(J, "Error: hex number can't be larger than FFFFFFFF"),
                       val |-> 0])
        ELSE noted(J, digits(J, HexDigits(Lexeme(J), 1, 0)))
  IN at(get_word(I))

interpret_hex(I) ==
  LET parsed(num) == IF num.i.error # NullError THEN num.i ELSE push(num.i, num.val)
  IN parsed(parse_hex(I))

ignore_hex(I) == parse_hex(I).i

compile_hex(I) ==
  LET parsed(num) ==
        IF num.i.error # NullError THEN None(num.i)
        ELSE Some(push_code(num.i, new_number(num.val)), 1)
  IN parsed(parse_hex(I))

RECURSIVE PackBytesFirstHigh(_, _, _)
\* the j bytes at line[start..] as a number, the first byte most significant
PackBytesFirstHigh(line, start, j) ==
  IF j = 0 THEN 0
  ELSE PackBytesFirstHigh(line, start, j - 1) * 256 + line[start + j - 1]

\* parse_short_str with the loop running from the first character to the last
parse_short_str_first_high(I) ==
  LET at(J) ==
        IF J.cw_len = 0
        THEN [i |-> SetError(J, "Error: expected word after '"), val |-> 0]
        ELSE IF J.cw_len > constexpr_substr_max_width
        THEN [i |-> SetError(J, "Error: short strings may be no longer than eight characters"),
              val |-> 0]
        ELSE [i |-> Handled(J), val |-> PackBytesFirstHigh(J.line, J.cw_text, J.cw_len) % Mod]
  IN at(get_word(I))

\* parse_short_str: [i, val]
parse_short_str(I) ==
  LET at(J) ==
        IF J.cw_len = 0
        THEN [i |-> SetError(J, "Error: expected word after '"), val |-> 0]
        ELSE IF J.cw_len > constexpr_substr_max_width
        THEN [i |-> SetError(J, "Error: short strings may be no longer than eight characters"),
              val |-> 0]
        ELSE [i |-> Handled(J), val |-> PackBytes(J.line, J.cw_text, 0, J.cw_len) % Mod]
  IN at(get_word(I))

interpret_short_str(I) ==
  LET parsed(str) == IF str.i.error # NullError THEN str.i ELSE push(str.i, str.val)
  IN parsed(parse_short_str(I))

ignore_short_str(I) == parse_short_str(I).i

compile_short_str(I) ==
  LET parsed(str) ==
        IF str.i.error # NullError THEN None(str.i)
        ELSE Some(push_code(str.i, new_number(str.val)), 1)
  IN parsed(parse_short_str(I))

\* "Pushes the number N to the stack" is written with the unsigned view
interpret_help(I) ==
  LET \* val = interpreter.read_value()
      help(K, has, v) ==
        IF ~has THEN SetError(K, "Error: couldn't find the specified word")
        ELSE CASE v.type = "Word" ->
                    write(K, <<CH_BACKTICK>> \o K.words[v.v + 1].name \o S_S1
                             \o K.words[v.v + 1].desc)
               [] v.type = "Primitive" ->
                    write(K, <<CH_BACKTICK>> \o primitives[v.v + 1].name \o S_S1)
               [] v.type = "Syntax" ->
                    write(K, <<CH_BACKTICK>> \o syntax[v.v + 1].name \o S_S1)
               [] v.type = "Number" ->
                    write(K, S_S2 \o DecDigits(v.v) \o S_S3)
      read(val) == help(val.i, val.has, val.val)
      J == get_word(I)
  IN IF J.cw_len = 0 THEN SetError(J, "Error: expected following word")
     ELSE read(read_value(J))

ignore_help(I) ==
  LET at(J) == IF J.cw_len = 0 THEN SetError(J, "Error: expected following word") ELSE J
  IN at(get_word(I))

RECURSIVE PushCells(_, _)
PushCells(I, cells) ==
  IF cells = <<>> THEN I ELSE PushCells(push_code(I, Head(cells)), Tail(cells))

compile_help(I) ==
  LET start_len == Len(I.code)
      named(name, desc) ==
        << new_number(CH_BACKTICK), new_primitive(PW("PW_Pstr")),
           new_number(name), new_function_ptr("print_raw"),
           new_number(AddrLiteral(1)), new_function_ptr("print_raw"),
           new_number(desc), new_function_ptr("print_raw") >>
      cells(v) == CASE v.type = "Word" -> named(AddrWordName(v.v), AddrWordDesc(v.v))
                    [] v.type = "Primitive" -> named(AddrPrimName(v.v), AddrPrimDesc(v.v))
                    [] v.type = "Syntax" -> named(AddrSynName(v.v), AddrSynDesc(v.v))
                    [] v.type = "Number" ->
                         << new_number(AddrLiteral(2)), new_function_ptr("print_raw"),
                            new_number(v.v), new_primitive(PW("PW_Print")),
                            new_number(AddrLiteral(3)), new_function_ptr("print_raw") >>
      pushed(L) == Some(L, Len(L.code) - start_len)
      \* val = interpreter.read_value()
      read(val) ==
        IF ~val.has THEN None(SetError(val.i, "Error: couldn't find the specified word"))
        ELSE pushed(PushCells(val.i, cells(val.val)))
      J == get_word(I)
  IN IF J.cw_len = 0 THEN None(SetError(J, "Error: expected following word"))
     ELSE read(read_value(J))

S_SYN_HOSTED ==
  <<60, 98, 117, 105, 108, 100, 45, 105, 110, 32, 115, 121, 110, 116, 97, 120, 32, 101, 120,
    112, 114, 101, 115, 115, 105, 111, 110, 32, CH_BACKTICK>>

interpret_def(I) ==
  LET \* val = interpreter.read_value()
      def(K, has, v) ==
        IF ~has THEN SetError(K, "Error: couldn't find the specified word")
        ELSE CASE v.type = "Word" -> print_definition(K, v.v)
               [] v.type = "Primitive" ->
                    write(K, S_PRI \o primitives[v.v + 1].name \o S_END)
               [] v.type = "Syntax" ->
                    write(K, S_SYN_HOSTED \o syntax[v.v + 1].name \o S_END)
               [] v.type = "Number" ->
                    write(K, S_LIT \o DecDigits(v.v) \o <<62>>)
      read(val) == def(val.i, val.has, val.val)
      J == get_word(I)
  IN IF J.cw_len = 0 THEN SetError(J, "Error: expected following word")
     ELSE read(read_value(J))

ignore_def(I) ==
  LET at(J) == IF J.cw_len = 0 THEN SetError(J, "Error: expected following word") ELSE J
  IN at(get_word(I))

compile_def(I) ==
  LET start_len == Len(I.code)
      cells(v) ==
               CASE v.type = "Word" ->
                      << new_number(v.v), new_function_ptr("print_definition_rf") >>
                 [] v.type = "Primitive" ->
                      << new_number(AddrLiteral(5)), new_function_ptr("print_raw"),
                         new_number(AddrPrimName(v.v)), new_function_ptr("print_raw"),
                         new_number(AddrLiteral(4)), new_function_ptr("print_raw") >>
                 [] v.type = "Syntax" ->
                      << new_number(AddrLiteral(6)), new_function_ptr("print_raw"),
                         new_number(AddrSynName(v.v)), new_function_ptr("print_raw"),
                         new_number(AddrLiteral(4)), new_function_ptr("print_raw") >>
                 [] v.type = "Number" ->
                      << new_number(AddrLiteral(7)), new_function_ptr("print_raw"),
                         new_number(v.v), new_primitive(PW("PW_Print")),
                         new_number(AddrLiteral(4)), new_function_ptr("print_raw") >>
      pushed(L) == Some(L, Len(L.code) - start_len)
      \* val = interpreter.read_value()
      read(val) ==
        IF ~val.has THEN None(SetError(val.i, "Error: couldn't find the specified word"))
        ELSE pushed(PushCells(val.i, cells(val.val)))
      J == get_word(I)
  IN IF J.cw_len = 0 THEN None(SetError(J, "Error: expected following word"))
     ELSE read(read_value(J))

compile_rec(I) == Some(push_code(I, new_function_ptr("recurse")), 1)

compile_ret(I) == Some(push_code(I, new_function_ptr("return_rf")), 1)

\* syntax[SC_Rec].run
interpret_rec(I) == SetError(I, "rec is only valid when defining a word")

\* syntax[SC_Ret].run
interpret_ret(I) == SetError(I, "ret is only valid when defining a word")

\* syntax[SC_Rec].ignore, syntax[SC_Ret].ignore
ignore_nothing(I) == I

\* interpret_skip reading the condition without popping it
interpret_skip_peek(I) ==
  LET b == top(I)
      asserted(r, what) == IF r.ok THEN r.i ELSE Abort(r.i, what)
  IN IF ~Live(I) THEN I
     ELSE IF Len(I.stack) = 0 THEN [Abort(I, "pop: len > 0") EXCEPT !.obs.underflow = TRUE]
     ELSE IF b = 0 THEN asserted(Interpreter_ignore_next(I), "interpreter.ignore_next()")
     ELSE asserted(Interpreter_run_next(I), "interpreter.run_next()")

interpret_skip(I) ==
  LET b == top(I)
      J == pop(I)
      \* assert(interpreter.ignore_next()), assert(interpreter.run_next())
      asserted(r, what) == IF r.ok THEN r.i ELSE Abort(r.i, what)
  IN IF ~Live(J) THEN J
     ELSE IF b = 0 THEN asserted(Interpreter_ignore_next(J), "interpreter.ignore_next()")
     ELSE asserted(Interpreter_run_next(J), "interpreter.run_next()")

ignore_skip(I) ==
  LET ignored(r) == IF r.ok THEN r.i ELSE Abort(r.i, "interpreter.ignore_next()")
  IN ignored(Interpreter_ignore_next(I))

compile_skip(I) ==
  LET I1 == push_code(I, new_number(0))
      skip_len == Len(I1.code)
      I2 == push_code(I1, new_function_ptr("skip"))
      noted(J, len) ==
        [J EXCEPT !.obs.skip_defs =
           Append(@, [pos |-> skip_len - 1, len |-> len,
                      emitted |-> Len(J.code) - Len(I2.code),
                      head |-> SubSeq(J.code, skip_len, skip_len + 1)])]
      \* next_len = interpreter.compile_next()
      compiled(next_len) ==
        IF ~Live(next_len.i) THEN None(next_len.i)
        ELSE IF next_len.has
        THEN Some(noted([next_len.i EXCEPT
                           !.code[skip_len] = new_number(next_len.val % Mod),
                           !.obs.low = IF skip_len - 1 < @ THEN skip_len - 1 ELSE @],
                        next_len.val),
                  next_len.val + 2)
        ELSE None(Abort(pop_code(pop_code(next_len.i)), "false"))
  IN compiled(Interpreter_compile_next(I2))

\* ProgramState::define_word
define_word(I, name, desc, code_pos, code_len) ==
  IF ~Live(I) THEN I
  ELSE [I EXCEPT !.words = Append(@, [name |-> name, desc |-> desc,
                                      code_pos |-> code_pos, code_len |-> code_len])]

RECURSIVE PopCodeOneMore(_, _)
\* PopCode removing one cell more than it is asked to
PopCodeOneMore(I, n) ==
  IF ~Live(I) THEN I
  ELSE IF n = 0 THEN pop_code(I)
  ELSE PopCodeOneMore(pop_code(I), n - 1)

RECURSIVE PopCode(_, _)
\* for (size_t i = 0; i < n; ++i) pop(interpreter.state.code);
PopCode(I, n) == IF n = 0 \/ ~Live(I) THEN I ELSE PopCode(pop_code(I), n - 1)

RECURSIVE TruncateBelow(_, _)
\* Truncate with >= for >: one cell too many is removed
TruncateBelow(I, size) ==
  IF ~Live(I) \/ Len(I.code) = 0 \/ ~(Len(I.code) >= size) THEN I
  ELSE TruncateBelow(pop_code(I), size)

RECURSIVE Truncate(_, _)
\* while (length(interpreter.state.code) > size) pop(interpreter.state.code);
Truncate(I, size) ==
  IF ~Live(I) \/ ~(Len(I.code) > size) THEN I ELSE Truncate(pop_code(I), size)

RECURSIVE WordDescLoop(_, _)
\* the description loop of interpret_word_def: [i, ok, desc_len]; desc is the
\* index of the first character of the description
WordDescLoop(I, desc) ==
  IF ~Live(I) THEN [i |-> I, ok |-> FALSE, desc_len |-> 0]
  ELSE IF I.cw_len = 0
  THEN [i |-> Abort(I, "interpreter.curr_word.len != 0"), ok |-> FALSE, desc_len |-> 0]
  ELSE LET desc_len == I.cw_text + I.cw_len - desc
           J == get_word(I)
           \* assert(interpreter.ignore_next()): skip embedded comments
           ignored(r) ==
             IF r.ok THEN WordDescLoop(Handled(r.i), desc)
             ELSE [i |-> Abort(r.i, "interpreter.ignore_next()"), ok |-> FALSE,
                   desc_len |-> 0]
       IN IF LexemeIs(J, CH_RPAREN)
          THEN [i |-> Handled(J), ok |-> TRUE, desc_len |-> desc_len]
          ELSE IF LexemeIs(J, CH_LPAREN)
          THEN ignored(Interpreter_ignore_next(J))
          ELSE IF J.cw_len = 0
          THEN [i |-> SetError(J, "Error: expected matching ) for start of description"),
                ok |-> FALSE, desc_len |-> 0]
          ELSE WordDescLoop(Handled(J), desc)

RECURSIVE WordBodyLoop(_, _)
\* the body loop of interpret_word_def: [i, define, code_len]; define says
\* that the loop was left by break, so that define_word follows
WordBodyLoop(I, code_len) ==
  LET J == get_word(I)
      \* compiled_len = interpreter.compile_next()
      compiled(compiled_len) ==
        IF compiled_len.has
        THEN WordBodyLoop(compiled_len.i, code_len + compiled_len.val)
        ELSE [i |-> SetError(PopCode(compiled_len.i, code_len), "Error: undefined word"),
              define |-> FALSE, code_len |-> code_len]
  IN IF ~Live(J) THEN [i |-> J, define |-> FALSE, code_len |-> code_len]
     ELSE IF LexemeIs(J, CH_SEMI)
     THEN [i |-> Handled(J), define |-> TRUE, code_len |-> code_len]
     ELSE IF J.cw_len = 0
     THEN [i |-> SetError(J, "Error: unterminated word definition"), define |-> TRUE,
           code_len |-> code_len]
     ELSE compiled(Interpreter_compile_next(J))

interpret_word_def(I) ==
  LET code_start == Len(I.code)
      I0 == [I EXCEPT !.obs.def_seen = TRUE, !.obs.def_err = FALSE,
                      !.obs.def_start = code_start, !.obs.def_words = Len(I.words)]
      exit(X) == IF Live(X) THEN [X EXCEPT !.obs.def_err = X.error # NullError,
                                           !.obs.def_end = Len(X.code),
                                           !.obs.def_words_end = Len(X.words)]
                ELSE X
      J == get_word(I0)
      name == Lexeme(J)
      K == get_word(Handled(J))
      \* the optional ( description )
      D1 == get_word(Handled(K))
      D == IF ~LexemeIs(K, CH_LPAREN) THEN [i |-> K, ok |-> TRUE, desc |-> <<>>]
           ELSE IF D1.cw_len = 0
           THEN [i |-> SetError(D1, "Error: expected matching ) for start of description"),
                 ok |-> FALSE, desc |-> <<>>]
           ELSE LET described(r) ==
                      [i |-> r.i, ok |-> r.ok,
                       desc |-> SubSeq(D1.line, D1.cw_text, D1.cw_text + r.desc_len - 1)]
                IN described(WordDescLoop(Handled(D1), D1.cw_text))
      \* what follows the body loop
      body(B, desc) ==
        IF B.define THEN exit(define_word(B.i, name, desc, code_start, B.code_len))
        ELSE exit(B.i)
      \* what follows the optional description
      description(d) ==
        IF ~d.ok THEN exit(d.i) ELSE body(WordBodyLoop(d.i, 0), d.desc)
  IN IF ~Live(I) THEN I
     ELSE IF J.cw_len = 0 THEN exit(SetError(J, "Error: expected word name"))
     ELSE description(D)

RECURSIVE ignore_word_def(_)
ignore_word_def(I) ==
  LET J == get_word(I)
      ignored(r) ==
        IF r.ok THEN ignore_word_def(r.i)
        \* read_value failed and left the lexeme unhandled: every further
        \* iteration peeks the same lexeme and fails the same way
        ELSE IF Live(r.i) THEN [r.i EXCEPT !.status = "hung", !.obs.scan_spin = TRUE]
        ELSE r.i
  IN IF ~Live(J) THEN J
     ELSE IF LexemeIs(J, CH_SEMI) THEN Handled(J)
     ELSE IF J.cw_len = 0 THEN SetError(J, "Error: unterminated word definition")
     ELSE ignored(Interpreter_ignore_next(J))

\* syntax[SC_WordDef].compile
compile_word_def(I) ==
  IF ~Live(I) THEN None(I)
  ELSE None([SetError(I, ": is not valid inside a word definition")
               EXCEPT !.obs.specific = ": is not valid inside a word definition"])

RECURSIVE RepRun(_, _, _, _, _)
\* for (size_t i = 0; i < n; ++i) { Runner runner = ...; while (...) run_next(); }
RepRun(I, i, n, code_pos, len) ==
  IF ~Live(I) \/ ~(i < n) THEN I
  ELSE LET ran(R) ==
             IF R.i.error # NullError
             \* the runners of the remaining repetitions run nothing
             THEN R.i
             ELSE RepRun(R.i, i + 1, n, code_pos, len)
       IN ran(RunLoop([NewRunner(I, code_pos, len) EXCEPT !.outside = TRUE]))

\* interpret_rep_and leaving the temporary region in place when a repetition
\* has set state.error
interpret_rep_and_keep_on_error(I) ==
  LET initial_size == Len(I.code)
      code_pos == initial_size
      \* interpret_rep_and returns in X, its item compiled or not
      returned(X, compiled_) ==
        IF ~Live(X) THEN X
        ELSE [X EXCEPT !.obs.rep_forms =
                Append(@, [compiled |-> compiled_, failed |-> X.error # NullError,
                           steps |-> X.obs.steps - I.obs.steps,
                           same |-> X.code = I.code])]
      \* the temporary region has been run and removed again
      truncated(T, n, tmp_cells) ==
        IF ~Live(T) THEN T
        ELSE IF T.error = NullError
        THEN returned(push([T EXCEPT !.obs.tmp_cells = tmp_cells], n), TRUE)
        ELSE returned([T EXCEPT !.obs.tmp_cells = tmp_cells], TRUE)
      \* the for loop and the truncation, or the rejected result
      run(ok, J, T) ==
        IF ~Live(J) THEN J
        ELSE IF ok THEN truncated(T, top(J), Len(J.code) - initial_size)
        ELSE returned(SetError(J, "Error: invalid code after rep_and"), FALSE)
      compiled(rep_len) ==
        LET ran == RepRun(pop(rep_len.i), 0, top(rep_len.i), code_pos, rep_len.val)
        IN run(rep_len.has, rep_len.i,
               IF ran.error # NullError THEN ran ELSE Truncate(ran, initial_size))
  IN compiled(Interpreter_compile_next(I))

\* interpret_rep_and pushing the count back whether or not an error is set
interpret_rep_and_push_back(I) ==
  LET initial_size == Len(I.code)
      code_pos == initial_size
      truncated(T, n, tmp_cells) ==
        IF ~Live(T) THEN T
        ELSE [T EXCEPT !.obs.tmp_cells = tmp_cells, !.stack = Append(@, n)]
      run(ok, J, T) ==
        IF ~Live(J) THEN J
        ELSE IF ok THEN truncated(T, top(J), Len(J.code) - initial_size)
        ELSE SetError(J, "Error: invalid code after rep_and")
      compiled(rep_len) ==
        run(rep_len.has, rep_len.i,
            Truncate(RepRun(pop(rep_len.i), 0, top(rep_len.i), code_pos, rep_len.val),
                     initial_size))
  IN compiled(Interpreter_compile_next(I))

interpret_rep_and(I) ==
  LET initial_size == Len(I.code)
      code_pos == initial_size
      \* interpret_rep_and returns in X, its item compiled or not
      returned(X, compiled_) ==
        IF ~Live(X) THEN X
        ELSE [X EXCEPT !.obs.rep_forms =
                Append(@, [compiled |-> compiled_, failed |-> X.error # NullError,
                           steps |-> X.obs.steps - I.obs.steps,
                           same |-> X.code = I.code])]
      \* the temporary region has been run and removed again
      truncated(T, n, tmp_cells) ==
        IF ~Live(T) THEN T
        ELSE IF T.error = NullError
        THEN returned(push([T EXCEPT !.obs.tmp_cells = tmp_cells], n), TRUE)
        ELSE returned([T EXCEPT !.obs.tmp_cells = tmp_cells], TRUE)
      \* the for loop and the truncation, or the rejected result
      run(ok, J, T) ==
        IF ~Live(J) THEN J
        ELSE IF ok THEN truncated(T, top(J), Len(J.code) - initial_size)
        ELSE returned(SetError(J, "Error: invalid code after rep_and"), FALSE)
      \* rep_len = interpreter.compile_next()
      compiled(rep_len) ==
        run(rep_len.has, rep_len.i,
            Truncate(RepRun(pop(rep_len.i), 0, top(rep_len.i), code_pos, rep_len.val),
                     initial_size))
  IN compiled(Interpreter_compile_next(I))

ignore_rep_and(I) ==
  LET ignored(r) == IF r.ok THEN r.i ELSE Abort(r.i, "interpreter.ignore_next()")
  IN ignored(Interpreter_ignore_next(I))

compile_rep_and(I) ==
  LET I1 == push_code(I, new_number(0))
      skip_len == Len(I1.code)
      I2 == push_code(I1, new_function_ptr("rep_and"))
      \* next_len = interpreter.compile_next()
      compiled(next_len) ==
        IF ~Live(next_len.i) THEN None(next_len.i)
        ELSE IF next_len.has
        THEN Some([next_len.i EXCEPT !.code[skip_len] = new_number(next_len.val % Mod),
                                     !.obs.low = IF skip_len - 1 < @ THEN skip_len - 1 ELSE @],
                  next_len.val + 2)
        ELSE None(Abort(pop_code(pop_code(next_len.i)), "false"))
  IN compiled(Interpreter_compile_next(I2))

\* interpret_rep leaving the count that interpret_rep_and pushed
interpret_rep_keep_count(I) == interpret_rep_and(I)

interpret_rep(I) ==
  LET drop(J) == IF J.error = NullError THEN pop(J) ELSE J
  IN drop(interpret_rep_and(I))

compile_primitive_idx(I, primitive_idx) ==
  Some(push_code(I, new_primitive(primitive_idx)), 1)

\* compile_rep without the drop cell after the repeated code
compile_rep_no_drop(I) == compile_rep_and(I)

\* compile_rep reporting the cells of rep_and without the drop cell it adds
compile_rep_count_short(I) ==
  LET drop(rep_and_size) ==
        IF rep_and_size.has
        THEN Some(compile_primitive_idx(rep_and_size.i, PW("PW_Drop")).i,
                  rep_and_size.val)
        ELSE None(rep_and_size.i)
  IN drop(compile_rep_and(I))

compile_rep(I) ==
  LET drop(rep_and_size) ==
        IF rep_and_size.has
        THEN Some(compile_primitive_idx(rep_and_size.i, PW("PW_Drop")).i,
                  rep_and_size.val + 1)
        ELSE None(rep_and_size.i)
  IN drop(compile_rep_and(I))

RECURSIVE interpret_block(_)
interpret_block(I) ==
  LET ran(r) ==
        IF ~r.ok THEN SetError(r.i, "Error: unrecognised word while parsing block")
        ELSE interpret_block(r.i)
      J == get_word(I)
  IN IF ~Live(J) THEN J
     ELSE IF LexemeIs(J, CH_RBRACKET) THEN Handled(J)
     ELSE IF J.cw_len = 0 THEN SetError(J, "Error: unclosed block")
     ELSE ran(Interpreter_run_next(J))

RECURSIVE ignore_block(_)
ignore_block(I) ==
  LET ignored(r) ==
        IF ~r.ok THEN SetError(r.i, "Error: unrecognised word while parsing block")
        ELSE ignore_block(r.i)
      J == get_word(I)
  IN IF ~Live(J) THEN J
     ELSE IF LexemeIs(J, CH_RBRACKET) THEN Handled(J)
     ELSE IF J.cw_len = 0 THEN SetError(J, "Error: unclosed block")
     ELSE ignored(Interpreter_ignore_next(J))

RECURSIVE CompileBlockLoop(_, _)
\* the while (true) of compile_block: [i, total_len]
CompileBlockLoop(I, total_len) ==
  LET compiled(next_size) ==
        IF ~next_size.has
        THEN [i |-> IF next_size.i.error # NullError THEN next_size.i
                    ELSE SetError(next_size.i,
                                  "Error: unrecognised word while parsing block"),
              total_len |-> total_len]
        ELSE CompileBlockLoop(next_size.i, total_len + next_size.val)
      J == get_word(I)
  IN IF ~Live(J) THEN [i |-> J, total_len |-> total_len]
     ELSE IF LexemeIs(J, CH_RBRACKET) THEN [i |-> Handled(J), total_len |-> total_len]
     ELSE IF J.cw_len = 0
     THEN [i |-> SetError(J, "Error: unclosed block"), total_len |-> total_len]
     ELSE compiled(Interpreter_compile_next(J))

compile_block(I) ==
  LET initial_code_len == Len(I.code)
      done(r) ==
        IF r.i.error # NullError THEN None(Truncate(r.i, initial_code_len))
        ELSE Some(r.i, r.total_len)
  IN done(CompileBlockLoop(I, 0))

\* syntax.run(*this), for the syntax form with designator id
syntax_run(id, I) ==
  CASE id = "SC_String" -> interpret_string(I)
    [] id = "SC_Hex" -> interpret_hex(I)
    [] id = "SC_ShortStr" -> interpret_short_str(I)
    [] id = "SC_Help" -> interpret_help(I)
    [] id = "SC_Def" -> interpret_def(I)
    [] id = "SC_Comment" -> ignore_comment(I)
    [] id = "SC_Rec" -> interpret_rec(I)
    [] id = "SC_Ret" -> interpret_ret(I)
    [] id = "SC_Skip" -> interpret_skip(I)
    [] id = "SC_WordDef" -> interpret_word_def(I)
    [] id = "SC_RepAnd" -> interpret_rep_and(I)
    [] id = "SC_Rep" -> interpret_rep(I)
    [] id = "SC_Block" -> interpret_block(I)

\* Interpreter::run_syntax_idx: syntax[syntax_idx].run(*this)
run_syntax_idx(syntax_idx, I) == syntax_run(syntax[syntax_idx + 1].id, I)

\* compile_syntax_idx that emits the form as a cell, the way compile_word_idx
\* and compile_primitive_idx do
compile_syntax_cell(syntax_idx, I) == Some(push_code(I, new_syntax(syntax_idx)), 1)

\* syntax.compile(*this), for the syntax form with designator id
syntax_compile(id, I) ==
  CASE id = "SC_String" -> compile_string(I)
    [] id = "SC_Hex" -> compile_hex(I)
    [] id = "SC_ShortStr" -> compile_short_str(I)
    [] id = "SC_Help" -> compile_help(I)
    [] id = "SC_Def" -> compile_def(I)
    [] id = "SC_Comment" -> compile_comment(I)
    [] id = "SC_Rec" -> compile_rec(I)
    [] id = "SC_Ret" -> compile_ret(I)
    [] id = "SC_Skip" -> compile_skip(I)
    [] id = "SC_WordDef" -> compile_word_def(I)
    [] id = "SC_RepAnd" -> compile_rep_and(I)
    [] id = "SC_Rep" -> compile_rep(I)
    [] id = "SC_Block" -> compile_block(I)

\* Interpreter::compile_syntax_idx: syntax[syntax_idx].compile(*this)
compile_syntax_idx(syntax_idx, I) == syntax_compile(syntax[syntax_idx + 1].id, I)

\* syntax.ignore(*this), for the syntax form with designator id
syntax_ignore(id, I) ==
  CASE id = "SC_String" -> ignore_string(I)
    [] id = "SC_Hex" -> ignore_hex(I)
    [] id = "SC_ShortStr" -> ignore_short_str(I)
    [] id = "SC_Help" -> ignore_help(I)
    [] id = "SC_Def" -> ignore_def(I)
    [] id = "SC_Comment" -> ignore_comment(I)
    [] id = "SC_Rec" -> ignore_nothing(I)
    [] id = "SC_Ret" -> ignore_nothing(I)
    [] id = "SC_Skip" -> ignore_skip(I)
    [] id = "SC_WordDef" -> ignore_word_def(I)
    [] id = "SC_RepAnd" -> ignore_rep_and(I)
    [] id = "SC_Rep" -> ignore_rep_and(I)
    [] id = "SC_Block" -> ignore_block(I)

\* Interpreter::ignore_syntax_idx: syntax[syntax_idx].ignore(*this)
ignore_syntax_idx(syntax_idx, I) == syntax_ignore(syntax[syntax_idx + 1].id, I)

\* Interpreter::run_value (read_value never yields a RawFunction)
Interpreter_run_value(value, I) ==
  CASE value.type = "Word" -> run_word_idx(value.v, I)
    [] value.type = "Primitive" -> run_primitive_idx(value.v, I)
    [] value.type = "Syntax" -> run_syntax_idx(value.v, I)
    [] value.type = "Number" -> run_number(value.v, I)
    [] value.type = "RawFunction" -> SetError(I, "Error: cannot interpret raw function")

\* compile_word_idx emitting the index that follows the one it was given
compile_word_idx_next(I, word_idx) ==
  IF word_idx < Len(I.words) THEN Some(push_code(I, new_word(word_idx + 1)), 1)
  ELSE None(Abort(I, "word_idx < length(state.words)"))

\* Interpreter::compile_word_idx
compile_word_idx(I, word_idx) ==
  IF word_idx < Len(I.words) THEN Some(push_code(I, new_word(word_idx)), 1)
  ELSE None(Abort(I, "word_idx < length(state.words)"))

\* Interpreter::compile_number
compile_number(I, number) == Some(push_code(I, new_number(number)), 1)

\* Interpreter::compile_value
Interpreter_compile_value(value, I) ==
  CASE value.type = "Word" -> compile_word_idx(I, value.v)
    [] value.type = "Primitive" -> compile_primitive_idx(I, value.v)
    [] value.type = "Syntax" -> compile_syntax_idx(value.v, I)
    [] value.type = "Number" -> compile_number(I, value.v)
    [] value.type = "RawFunction" ->
         None(SetError(I, "Error: cannot interpret raw function"))

\* Interpreter::ignore_value
Interpreter_ignore_value(value, I) ==
  CASE value.type = "Word" -> I
    [] value.type = "Primitive" -> I
    [] value.type = "Syntax" -> ignore_syntax_idx(value.v, I)
    [] value.type = "Number" -> I
    [] value.type = "RawFunction" -> SetError(I, "Error: cannot interpret raw function")

\* a value that is run or compiled while state.error is already set
Late(I, J) == IF I.error # NullError THEN [J EXCEPT !.obs.late_tok = TRUE] ELSE J

\* if (has(value)) { run_value(get(value)); return true; } else return false;
run_read(I, value) ==
  IF value.has
  THEN [i |-> Interpreter_run_value(value.val, Late(I, value.i)), ok |-> TRUE]
  ELSE [i |-> value.i, ok |-> FALSE]

\* Interpreter::run_next: [i, ok]
Interpreter_run_next(I) == run_read(I, read_value(I))

\* if (has(value)) return compile_value(get(value)); return {};
\* compile_next was called in the interpreter I for the lexeme at `at` and
\* returns r
Compiled(I, at, r) ==
  IF ~Live(r.i) THEN r
  ELSE [r EXCEPT !.i.obs.items =
          Append(@, [at |-> at, has |-> r.has, val |-> r.val,
                     from |-> Len(I.code), to |-> Len(r.i.code)])]

compile_read(I, value) ==
  IF value.has
  THEN Compiled(I, value.i.cw_text,
                Interpreter_compile_value(value.val, Late(I, value.i)))
  ELSE Compiled(I, value.i.cw_text, None(value.i))

\* Interpreter::compile_next: [i, has, val]
Interpreter_compile_next(I) == compile_read(I, read_value(I))

\* if (has(value)) { ignore_value(get(value)); return true; } return false;
ignore_read(value) ==
  IF value.has
  THEN [i |-> Interpreter_ignore_value(value.val, value.i), ok |-> TRUE]
  ELSE [i |-> value.i, ok |-> FALSE]

\* Interpreter::ignore_next: [i, ok]
Interpreter_ignore_next(I) == ignore_read(read_value(I))

(***************************************************************************)
(* The read loop (main and interpret_str of src/unnamed/part_001).         *)
(***************************************************************************)
RECURSIVE LineLoop(_)
\* while (!interpreter.state.error && interpreter.len > 0) interpreter.run_next();
LineLoop(I) ==
  IF Live(I) /\ I.error = NullError /\ Len_(I) > 0
  THEN LineLoop(Interpreter_run_next(I).i)
  ELSE I

S_AT_END == <<64, 32, 101, 110, 100, 32, 111, 102, 32, 108, 105, 110, 101>>
S_AT_WORD ==
  <<64, 32, 119, 111, 114, 100, 32, 115, 116, 97, 114, 116, 105, 110, 103, 32, 97, 116, 32>>

\* interpret_str without  interpreter.state.error = nullptr
interpret_str_keep_error(I, str, silent) ==
  LET report(J) ==
        LET R1 == IF ~J.error_handled
                  THEN [write(J, <<NEWLINE>>) EXCEPT !.reported = J.error]
                  ELSE J
            R2 == IF J.cw_len = 0 THEN write(R1, S_AT_END \o <<NEWLINE>>)
                  ELSE write(R1, S_AT_WORD \o DecDigits(J.cw_text - 1) \o <<58, SPACE>>
                                 \o Lexeme(J) \o <<NEWLINE>>)
        IN IF ~Live(J) THEN J
           ELSE IF J.error # NullError THEN [R2 EXCEPT !.error_handled = TRUE]
           ELSE IF ~silent THEN write(J, <<NEWLINE>>)
           ELSE J
      entered(J, before) ==
        [J EXCEPT !.obs.entry =
           Append(@, [before |-> before, error |-> J.error, stack |-> J.stack,
                      code |-> J.code, words |-> J.words,
                      runs |-> Live(J) /\ J.error = NullError /\ Len_(J) > 0])]
  IN report(LineLoop(entered([I EXCEPT !.error_handled = FALSE,
                                       !.line = str, !.pos = 1,
                                       !.cw_text = 0, !.cw_len = 0, !.cw_handled = FALSE],
                             I.error)))

interpret_str(I, str, silent) ==
  LET \* what follows the loop, J being the interpreter the loop has left
      report(J) ==
        LET \* std::cout << '\n' << error << std::endl: the text is kept in `reported`
            R1 == IF ~J.error_handled
                  THEN [write(J, <<NEWLINE>>) EXCEPT !.reported = J.error]
                  ELSE J
            R2 == IF J.cw_len = 0 THEN write(R1, S_AT_END \o <<NEWLINE>>)
                  ELSE write(R1, S_AT_WORD \o DecDigits(J.cw_text - 1) \o <<58, SPACE>>
                                 \o Lexeme(J) \o <<NEWLINE>>)
        IN IF ~Live(J) THEN J
           ELSE IF J.error # NullError THEN [R2 EXCEPT !.error_handled = TRUE]
           ELSE IF ~silent THEN write(J, <<NEWLINE>>)
           ELSE J
      \* the loop is entered in J; before is the error interpret_str was called with
      entered(J, before) ==
        [J EXCEPT !.obs.entry =
           Append(@, [before |-> before, error |-> J.error, stack |-> J.stack,
                      code |-> J.code, words |-> J.words,
                      runs |-> Live(J) /\ J.error = NullError /\ Len_(J) > 0]),
                  !.obs.low = Len(J.code), !.obs.high = Len(J.code)]
  IN report(LineLoop(entered([I EXCEPT !.error = NullError, !.error_handled = FALSE,
                                       !.line = str, !.pos = 1,
                                       !.cw_text = 0, !.cw_len = 0, !.cw_handled = FALSE],
                             I.error)))

\* the lines main() interprets before the first prompt (the text up to | )
PreludeLines ==
     \* 1: : - ( a b -- a-b ) not inc + ;|
  << <<58, 32, 45, 32, 40, 32, 97, 32, 98, 32, 45, 45, 32, 97, 45, 98, 32, 41,
         32, 110, 111, 116, 32, 105, 110, 99, 32, 43, 32, 59>>,
     \* 2: : neg ( a -- -a ) 0 swap - ;|
     <<58, 32, 110, 101, 103, 32, 40, 32, 97, 32, 45, 45, 32, 45, 97, 32, 41,
         32, 48, 32, 115, 119, 97, 112, 32, 45, 32, 59>>,
     \* 3: : *_under ( a b -- a a*b ) swap dup rot * ;|
     <<58, 32, 42, 95, 117, 110, 100, 101, 114, 32, 40, 32, 97, 32, 98, 32,
         45, 45, 32, 97, 32, 97, 42, 98, 32, 41, 32, 115, 119, 97, 112, 32, 100,
         117, 112, 32, 114, 111, 116, 32, 42, 32, 59>>,
     \* 4: : ^ ( a b -- a^b ; a to the power b ) 1 swap rep *_under swap drop ;|
     <<58, 32, 94, 32, 40, 32, 97, 32, 98, 32, 45, 45, 32, 97, 94, 98, 32, 59,
         32, 97, 32, 116, 111, 32, 116, 104, 101, 32, 112, 111, 119, 101, 114,
         32, 98, 32, 41, 32, 49, 32, 115, 119, 97, 112, 32, 114, 101, 112, 32,
         42, 95, 117, 110, 100, 101, 114, 32, 115, 119, 97, 112, 32, 100, 114,
         111, 112, 32, 59>>,
     \* 5: : != ( a b -- a!=b ) = not ;|
     <<58, 32, 33, 61, 32, 40, 32, 97, 32, 98, 32, 45, 45, 32, 97, 33, 61, 98,
         32, 41, 32, 61, 32, 110, 111, 116, 32, 59>>,
     \* 6: : <= ( a b -- a<=b ) dup rot dup rot < unrot = or ;|
     <<58, 32, 60, 61, 32, 40, 32, 97, 32, 98, 32, 45, 45, 32, 97, 60, 61, 98,
         32, 41, 32, 100, 117, 112, 32, 114, 111, 116, 32, 100, 117, 112, 32,
         114, 111, 116, 32, 60, 32, 117, 110, 114, 111, 116, 32, 61, 32, 111,
         114, 32, 59>>,
     \* 7: : >= ( a b -- a>=b ) < not ;|
     <<58, 32, 62, 61, 32, 40, 32, 97, 32, 98, 32, 45, 45, 32, 97, 62, 61, 98,
         32, 41, 32, 60, 32, 110, 111, 116, 32, 59>>,
     \* 8: : > ( a b -- a>=b ) <= not ;|
     <<58, 32, 62, 32, 40, 32, 97, 32, 98, 32, 45, 45, 32, 97, 62, 61, 98, 32,
         41, 32, 60, 61, 32, 110, 111, 116, 32, 59>>,
     \* 9: : truthy? ( a -- a!=false ) false != ;|
     <<58, 32, 116, 114, 117, 116, 104, 121, 63, 32, 40, 32, 97, 32, 45, 45,
         32, 97, 33, 61, 102, 97, 108, 115, 101, 32, 41, 32, 102, 97, 108, 115,
         101, 32, 33, 61, 32, 59>>,
     \* 10: : show_top ( a -- a ; prints the topmost stack element ) dup print ;|
     <<58, 32, 115, 104, 111, 119, 95, 116, 111, 112, 32, 40, 32, 97, 32, 45,
         45, 32, 97, 32, 59, 32, 112, 114, 105, 110, 116, 115, 32, 116, 104,
         101, 32, 116, 111, 112, 109, 111, 115, 116, 32, 115, 116, 97, 99, 107,
         32, 101, 108, 101, 109, 101, 110, 116, 32, 41, 32, 100, 117, 112, 32,
         112, 114, 105, 110, 116, 32, 59>>,
     \* 11: : clear ( ... - ; clears the stack ) stack_len 0 = ? ret drop rec ;|
     <<58, 32, 99, 108, 101, 97, 114, 32, 40, 32, 46, 46, 46, 32, 45, 32, 59,
         32, 99, 108, 101, 97, 114, 115, 32, 116, 104, 101, 32, 115, 116, 97,
         99, 107, 32, 41, 32, 115, 116, 97, 99, 107, 95, 108, 101, 110, 32, 48,
         32, 61, 32, 63, 32, 114, 101, 116, 32, 100, 114, 111, 112, 32, 114,
         101, 99, 32, 59>> >>

\* lines stdin may deliver (the text up to | )
BaseInputs ==
     \* 1: |
  << <<>>,
     \* 2:  |
     <<32>>,
     \* 3: 1 |
     <<49, 32>>,
     \* 4: 1 2 +|
     <<49, 32, 50, 32, 43>>,
     \* 5: .|
     <<46>>,
     \* 6: drop|
     <<100, 114, 111, 112>>,
     \* 7: foo|
     <<102, 111, 111>>,
     \* 8: quit|
     <<113, 117, 105, 116>>,
     \* 9: clear|
     <<99, 108, 101, 97, 114>>,
     \* 10: 2 3 ^|
     <<50, 32, 51, 32, 94>>,
     \* 11: 1 2 <=|
     <<49, 32, 50, 32, 60, 61>>,
     \* 12: 1 0 /|
     <<49, 32, 48, 32, 47>>,
     \* 13: 99999|
     <<57, 57, 57, 57, 57>>,
     \* 14: 70000|
     <<55, 48, 48, 48, 48>>,
     \* 15: 65535|
     <<54, 53, 53, 51, 53>>,
     \* 16: 65536|
     <<54, 53, 53, 51, 54>>,
     \* 17: : w 1 ;|
     <<58, 32, 119, 32, 49, 32, 59>>,
     \* 18: : w 1|
     <<58, 32, 119, 32, 49>>,
     \* 19: : w 1 ( x|
     <<58, 32, 119, 32, 49, 32, 40, 32, 120>>,
     \* 20: : w foo ;|
     <<58, 32, 119, 32, 102, 111, 111, 32, 59>>,
     \* 21: : w 1 : x ;|
     <<58, 32, 119, 32, 49, 32, 58, 32, 120, 32, 59>>,
     \* 22: : w [ 1|
     <<58, 32, 119, 32, 91, 32, 49>>,
     \* 23: : w " a|
     <<58, 32, 119, 32, 34, 32, 97>>,
     \* 24: : w ( d ) 2 rep [ drop 7 ] ;|
     <<58, 32, 119, 32, 40, 32, 100, 32, 41, 32, 50, 32, 114, 101, 112, 32,
         91, 32, 100, 114, 111, 112, 32, 55, 32, 93, 32, 59>>,
     \* 25: : w ' a ;|
     <<58, 32, 119, 32, 39, 32, 97, 32, 59>>,
     \* 26: : w ? 1 2 ;|
     <<58, 32, 119, 32, 63, 32, 49, 32, 50, 32, 59>>,
     \* 27: : w 1 ? foo ;|
     <<58, 32, 119, 32, 49, 32, 63, 32, 102, 111, 111, 32, 59>>,
     \* 28: : w help dup def clear ;|
     <<58, 32, 119, 32, 104, 101, 108, 112, 32, 100, 117, 112, 32, 100, 101,
         102, 32, 99, 108, 101, 97, 114, 32, 59>>,
     \* 29: w|
     <<119>>,
     \* 30: 1 w|
     <<49, 32, 119>>,
     \* 31: 0 w|
     <<48, 32, 119>>,
     \* 32: def w|
     <<100, 101, 102, 32, 119>>,
     \* 33: help w|
     <<104, 101, 108, 112, 32, 119>>,
     \* 34: ?|
     <<63>>,
     \* 35: 1 ? 2|
     <<49, 32, 63, 32, 50>>,
     \* 36: 0 ? 1 2|
     <<48, 32, 63, 32, 49, 32, 50>>,
     \* 37: 1 ?|
     <<49, 32, 63>>,
     \* 38: [ drop 1 2 ]|
     <<91, 32, 100, 114, 111, 112, 32, 49, 32, 50, 32, 93>>,
     \* 39: [ 1 2 ]|
     <<91, 32, 49, 32, 50, 32, 93>>,
     \* 40: [ 1|
     <<91, 32, 49>>,
     \* 41: rep 1|
     <<114, 101, 112, 32, 49>>,
     \* 42: rep_and 1|
     <<114, 101, 112, 95, 97, 110, 100, 32, 49>>,
     \* 43: 2 rep|
     <<50, 32, 114, 101, 112>>,
     \* 44: 3 rep_and 1|
     <<51, 32, 114, 101, 112, 95, 97, 110, 100, 32, 49>>,
     \* 45: 2 rep [ drop 7 ]|
     <<50, 32, 114, 101, 112, 32, 91, 32, 100, 114, 111, 112, 32, 55, 32, 93>>,
     \* 46: 1 rep [ 2 rep [ drop 7 ] ]|
     <<49, 32, 114, 101, 112, 32, 91, 32, 50, 32, 114, 101, 112, 32, 91, 32,
         100, 114, 111, 112, 32, 55, 32, 93, 32, 93>>,
     \* 47: 1 rep ret|
     <<49, 32, 114, 101, 112, 32, 114, 101, 116>>,
     \* 48: 0 print_string|
     <<48, 32, 112, 114, 105, 110, 116, 95, 115, 116, 114, 105, 110, 103>>,
     \* 49: 1 print_string|
     <<49, 32, 112, 114, 105, 110, 116, 95, 115, 116, 114, 105, 110, 103>>,
     \* 50: ' ab pstr|
     <<39, 32, 97, 98, 32, 112, 115, 116, 114>>,
     \* 51: " abc " print_string|
     <<34, 32, 97, 98, 99, 32, 34, 32, 112, 114, 105, 110, 116, 95, 115, 116,
         114, 105, 110, 103>>,
     \* 52: hex ff|
     <<104, 101, 120, 32, 102, 102>>,
     \* 53: help dup|
     <<104, 101, 108, 112, 32, 100, 117, 112>>,
     \* 54: help 5|
     <<104, 101, 108, 112, 32, 53>>,
     \* 55: def clear|
     <<100, 101, 102, 32, 99, 108, 101, 97, 114>>,
     \* 56: words|
     <<119, 111, 114, 100, 115>>,
     \* 57: ( c ) 1|
     <<40, 32, 99, 32, 41, 32, 49>>,
     \* 58: ( c|
     <<40, 32, 99>>,
     \* 59: : dup 5 ; : hex 6 ; : 7 8 ; dup hex 7|
     <<58, 32, 100, 117, 112, 32, 53, 32, 59, 32, 58, 32, 104, 101, 120, 32,
         54, 32, 59, 32, 58, 32, 55, 32, 56, 32, 59, 32, 100, 117, 112, 32, 104,
         101, 120, 32, 55>>,
     \* 60: : w 1 ; : x w ; : w 2 ; x w|
     <<58, 32, 119, 32, 49, 32, 59, 32, 58, 32, 120, 32, 119, 32, 59, 32, 58,
         32, 119, 32, 50, 32, 59, 32, 120, 32, 119>>,
     \* 61: : r rep_and [ 1 + ] ; 5 3 r 0 r|
     <<58, 32, 114, 32, 114, 101, 112, 95, 97, 110, 100, 32, 91, 32, 49, 32,
         43, 32, 93, 32, 59, 32, 53, 32, 51, 32, 114, 32, 48, 32, 114>>,
     \* 62: : w 1 ? ret 7 ; w 5|
     <<58, 32, 119, 32, 49, 32, 63, 32, 114, 101, 116, 32, 55, 32, 59, 32,
         119, 32, 53>>,
     \* 63: : w 1 rep ret ; w 5|
     <<58, 32, 119, 32, 49, 32, 114, 101, 112, 32, 114, 101, 116, 32, 59, 32,
         119, 32, 53>>,
     \* 64: : w 2 rep_and ret ; w 5|
     <<58, 32, 119, 32, 50, 32, 114, 101, 112, 95, 97, 110, 100, 32, 114, 101,
         116, 32, 59, 32, 119, 32, 53>>,
     \* 65: 1 2 3|
     <<49, 32, 50, 32, 51>>,
     \* 66: hex g|
     <<104, 101, 120, 32, 103>>,
     \* 67: 1 0 ? drop .|
     <<49, 32, 48, 32, 63, 32, 100, 114, 111, 112, 32, 46>>,
     \* 68: : loop10 10 rep show_top ; 0 loop10|
     <<58, 32, 108, 111, 111, 112, 49, 48, 32, 49, 48, 32, 114, 101, 112, 32,
         115, 104, 111, 119, 95, 116, 111, 112, 32, 59, 32, 48, 32, 108, 111,
         111, 112, 49, 48>>,
     \* 69: 5 rep_and dup + .|
     <<53, 32, 114, 101, 112, 95, 97, 110, 100, 32, 100, 117, 112, 32, 43, 32,
         46>>,
     \* 70: 1 2 3 4 5 6 7 8 9 0 1 2 3 4 5 6 65535 .|
     <<49, 32, 50, 32, 51, 32, 52, 32, 53, 32, 54, 32, 55, 32, 56, 32, 57, 32,
         48, 32, 49, 32, 50, 32, 51, 32, 52, 32, 53, 32, 54, 32, 54, 53, 53, 51,
         53, 32, 46>>,
     \* 71: 2 rep foo|
     <<50, 32, 114, 101, 112, 32, 102, 111, 111>>,
     \* 72: 2 rep_and [ 1 ? 7 ] : w 2 rep_and [ 1 ? 7 ] ; w|
     <<50, 32, 114, 101, 112, 95, 97, 110, 100, 32, 91, 32, 49, 32, 63, 32,
         55, 32, 93, 32, 58, 32, 119, 32, 50, 32, 114, 101, 112, 95, 97, 110,
         100, 32, 91, 32, 49, 32, 63, 32, 55, 32, 93, 32, 59, 32, 119>> >>

\* one item of every kind the interpreter can be asked to skip (the text up to | )
SkipItems ==
     \* 1: help drop|
  << <<104, 101, 108, 112, 32, 100, 114, 111, 112>>,
     \* 2: def dup|
     <<100, 101, 102, 32, 100, 117, 112>>,
     \* 3: hex ff|
     <<104, 101, 120, 32, 102, 102>>,
     \* 4: ' a|
     <<39, 32, 97>>,
     \* 5: " a "|
     <<34, 32, 97, 32, 34>>,
     \* 6: [ drop ]|
     <<91, 32, 100, 114, 111, 112, 32, 93>>,
     \* 7: ? drop|
     <<63, 32, 100, 114, 111, 112>>,
     \* 8: rep drop|
     <<114, 101, 112, 32, 100, 114, 111, 112>>,
     \* 9: : w 1 ;|
     <<58, 32, 119, 32, 49, 32, 59>> >>

\* "0 ? <item> 7": a zero, the skip, the k-th item and one more token
SkipLine(k) == <<CH_0, SPACE, 63, SPACE>> \o SkipItems[k] \o <<SPACE, 55>>

\* ": v ? <item> 7 ;" and then v run on zero and on one
CompileSkipLine(k) ==
  <<58, SPACE, 118, SPACE, 63, SPACE>> \o SkipItems[k]
    \o <<SPACE, 55, SPACE, CH_SEMI, SPACE, CH_0, SPACE, 118, SPACE, 49, SPACE, 118>>

\* the lines stdin may deliver
Inputs ==
  BaseInputs \o [k \in 1..Len(SkipItems) |-> SkipLine(k)]
             \o [k \in 1..Len(SkipItems) |-> CompileSkipLine(k)]

(***************************************************************************)
(* The program as a state machine.                                         *)
(***************************************************************************)
VARIABLES
  stack,          \* state.stack
  code,           \* state.code
  words,          \* state.words
  error,          \* state.error (NullError for nullptr)
  error_handled,  \* state.error_handled
  line,           \* the characters of the line being interpreted
  pos,            \* interpreter.line, as an index into line
  curr_word,      \* interpreter.curr_word: [text, len, handled]
  should_quit,    \* the global should_quit
  out,            \* the characters written to stdout since the last prompt
  reported,       \* the error text written to stdout since the last prompt
  status,         \* "ok", "crashed" or "hung"
  obs,            \* what happened while the last line ran
  pc,             \* where main() stands: "prelude", "prompt", "read", "done"
  nprelude,       \* prelude lines interpreted so far
  nlines,         \* lines read from stdin so far
  probe           \* a primitive applied on its own: operands and result

vars == <<stack, code, words, error, error_handled, line, pos, curr_word,
          should_quit, out, reported, status, obs, pc, nprelude, nlines, probe>>

\* no primitive has been applied on its own
NoProbe == [op |-> "none", w |-> 0, a |-> {}, c |-> 0, res |-> {}]

\* the interpreter (with the program state it refers to) in the current state
Cur ==
  [stack |-> stack, code |-> code, words |-> words, error |-> error,
   error_handled |-> error_handled, line |-> line, pos |-> pos,
   cw_text |-> curr_word.text, cw_len |-> curr_word.len,
   cw_handled |-> curr_word.handled, should_quit |-> should_quit,
   out |-> out, reported |-> reported, status |-> status, obs |-> obs]

\* the next state holds the interpreter J
Store(J) ==
  /\ stack' = J.stack
  /\ code' = J.code
  /\ words' = J.words
  /\ error' = J.error
  /\ error_handled' = J.error_handled
  /\ line' = J.line
  /\ pos' = J.pos
  /\ curr_word' = [text |-> J.cw_text, len |-> J.cw_len, handled |-> J.cw_handled]
  /\ should_quit' = J.should_quit
  /\ out' = J.out
  /\ reported' = J.reported
  /\ status' = J.status
  /\ obs' = J.obs

\* an aborted or spinning process keeps no state: only the line it was given
\* and what was observed while it ran remain
Outcome(I, J) ==
  IF Live(J) THEN J
  ELSE [I EXCEPT !.status = J.status, !.obs = J.obs, !.line = J.line]

Init ==
  /\ stack = <<>>
  /\ code = <<>>
  /\ words = <<>>
  /\ error = NullError
  /\ error_handled = FALSE
  /\ line = <<>>
  /\ pos = 1
  /\ curr_word = [text |-> 0, len |-> 0, handled |-> FALSE]
  /\ should_quit = FALSE
  /\ out = <<>>
  /\ reported = ""
  /\ status = "ok"
  /\ obs = NoObs
  /\ pc = "prelude"
  /\ nprelude = 0
  /\ nlines = 0
  /\ probe = NoProbe

\* main(): interpret_str(interpreter, <prelude line>, true)
Prelude ==
  /\ pc = "prelude"
  /\ nprelude < Len(PreludeLines)
  /\ LET returned(J) ==
           /\ Store(Outcome(Cur, J))
           /\ pc' = IF ~Live(J) THEN "done"
                    ELSE IF nprelude + 1 = Len(PreludeLines) THEN "prompt"
                    ELSE "prelude"
     IN returned(interpret_str([Cur EXCEPT !.obs = NoObs], PreludeLines[nprelude + 1], TRUE))
  /\ nprelude' = nprelude + 1
  /\ UNCHANGED <<nlines, probe>>

\* while (!should_quit) { std::cout << "> "; ...
Prompt ==
  /\ pc = "prompt"
  /\ ~should_quit
  /\ out' = <<62, SPACE>>
  /\ reported' = ""
  /\ obs' = NoObs
  /\ pc' = "read"
  /\ UNCHANGED <<stack, code, words, error, error_handled, line, pos, curr_word,
                 should_quit, status, nprelude, nlines, probe>>

\* std::getline(std::cin, line); interpret_str(interpreter, line);
ReadLine(str) ==
  /\ pc = "read"
  /\ nlines < MaxLines
  /\ LET returned(J) ==
           /\ J.status # "cut"
           /\ Store(Outcome(Cur, J))
           /\ pc' = IF Live(J) THEN "prompt" ELSE "done"
     IN returned(interpret_str(Cur, str, FALSE))
  /\ nlines' = nlines + 1
  /\ UNCHANGED <<nprelude, probe>>

\* if (std::cin.eof() || std::cin.fail()) break;
Eof ==
  /\ pc = "read"
  /\ pc' = "done"
  /\ UNCHANGED <<stack, code, words, error, error_handled, line, pos, curr_word,
                 should_quit, out, reported, status, obs, nprelude, nlines, probe>>

\* while (!should_quit) is left once quit has run
Quit ==
  /\ pc = "prompt"
  /\ should_quit
  /\ pc' = "done"
  /\ UNCHANGED <<stack, code, words, error, error_handled, line, pos, curr_word,
                 should_quit, out, reported, status, obs, nprelude, nlines, probe>>

Next ==
  \/ Prelude
  \/ Prompt
  \/ \E k \in 1..Len(Inputs) : ReadLine(Inputs[k])
  \/ Eof
  \/ Quit

Spec == Init /\ [][Next]_vars

(***************************************************************************)
(* shl and shr on the machine words of the two builds.  A word of w bits   *)
(* is the set of the positions (0 = least significant) of its one bits, so *)
(* that words of 32 and of 64 bits can be written down.                    *)
(***************************************************************************)
\* the words the shifts are applied to
ShiftOperands(w) == {{}, {0}, {w - 1}, {0, 5, w - 1}, {3, 31}, 0..(w - 1)}

\* main() has not run; shl or shr is about to be applied to the words a and c
\* (c is given as a number) of a build with words of w bits
InitShift ==
  /\ stack = <<>>
  /\ code = <<>>
  /\ words = <<>>
  /\ error = NullError
  /\ error_handled = FALSE
  /\ line = <<>>
  /\ pos = 1
  /\ curr_word = [text |-> 0, len |-> 0, handled |-> FALSE]
  /\ should_quit = FALSE
  /\ out = <<>>
  /\ reported = ""
  /\ status = "ok"
  /\ obs = NoObs
  /\ pc = "probe"
  /\ nprelude = 0
  /\ nlines = 0
  /\ \E w \in WordWidths : \E a \in ShiftOperands(w) : \E c \in 0..MaxShift :
       probe = [op |-> "none", w |-> w, a |-> a, c |-> c, res |-> {}]

\* primitives[PW_Shl].fun with under_top = a and top = c
ApplyShl ==
  /\ probe.op = "none"
  /\ probe' = [probe EXCEPT !.op = "shl", !.res = shl_word(probe.w, probe.a, probe.c)]
  /\ UNCHANGED <<stack, code, words, error, error_handled, line, pos, curr_word,
                 should_quit, out, reported, status, obs, pc, nprelude, nlines>>

\* primitives[PW_Shr].fun with under_top = a and top = c
ApplyShr ==
  /\ probe.op = "none"
  /\ probe' = [probe EXCEPT !.op = "shr", !.res = shr_word(probe.a, probe.c)]
  /\ UNCHANGED <<stack, code, words, error, error_handled, line, pos, curr_word,
                 should_quit, out, reported, status, obs, pc, nprelude, nlines>>

NextShift ==
  \/ ApplyShl
  \/ ApplyShr

ShiftSpec == InitShift /\ [][NextShift]_vars

(***************************************************************************)
(* Properties.                                                             *)
(***************************************************************************)
\* the cells code[code_pos] .. code[code_pos + code_len - 1] of word k
Slice(k) == (words[k].code_pos + 1)..(words[k].code_pos + words[k].code_len)

\* the last line held a word definition that returned with state.error set
DefinitionFailed == pc = "prompt" /\ status = "ok" /\ obs.def_seen /\ obs.def_err

\* C1: after a line whose word definition raised an error, the code buffer
\* is as long as it was when that definition started.
C1_FailedDefinitionRestoresCode == DefinitionFailed => Len(code) = obs.def_start

\* C2: a word definition that raised an error publishes nothing: the word
\* store holds as many entries as when the definition started.
C2_FailedDefinitionPublishesNothing == DefinitionFailed => Len(words) = obs.def_words

\* C3: in every reachable state the slice of every word of the word store
\* ends inside the code buffer.
C3_SlicesInsideCode ==
  \A k \in 1..Len(words) : words[k].code_pos + words[k].code_len <= Len(code)

\* C3, witness: a user word ends exactly where the code buffer ends, after
\* a line on which interpret-mode rep / rep_and compiled a temporary region
\* behind it and removed it again.
C3_Witness ==
  /\ pc = "prompt"
  /\ Len(words) > Len(PreludeLines)
  /\ obs.tmp_cells > 0
  /\ words[Len(words)].code_len > 0
  /\ words[Len(words)].code_pos + words[Len(words)].code_len = Len(code)

\* C4: in every reachable state no cell inside the slice of a word of the
\* word store is of type Syntax.
C4_NoSyntaxCellInWords ==
  \A k \in 1..Len(words) :
    \A j \in Slice(k) : j <= Len(code) => code[j].type # "Syntax"

\* C4, witness: a word read from stdin whose slice holds what a syntax form
\* compiled to (a synthetic opcode).
C4_Witness ==
  /\ pc = "prompt"
  /\ \E k \in (Len(PreludeLines) + 1)..Len(words) :
       \E j \in Slice(k) : j <= Len(code) /\ code[j].type = "RawFunction"

\* C5: in interpret mode, when ? pops zero the whole following item is
\* skipped: the line "0 ? <item> 7" leaves the code buffer and the word store
\* as they were, prints nothing, raises no error, and resumes after the item,
\* so that the stack gains the 7 and nothing else.
C5_SkipSkipsWholeItem ==
  [][\A k \in 1..Len(SkipItems) :
       (pc = "read" /\ nlines' = nlines + 1 /\ line' = SkipLine(k))
         => /\ status' = "ok"
            /\ error' = NullError
            /\ stack' = Append(stack, 7)
            /\ code' = code
            /\ words' = words
            /\ out' = out \o <<NEWLINE>>]_vars

\* C6: once state.error is set while a compiled word runs, no further cell
\* of that word is executed before the line ends.
C6_NoCellRunAfterError == ~obs.late_word

\* C7: once state.error is set while a line is interpreted, no later token
\* of the line is run or compiled.
C7_NoTokenAfterError == ~obs.late_tok

\* C8: no operation pops from an empty stack or reads a slot outside the
\* stack.
C8_NoStackUnderflow == ~obs.underflow

\* C9: read_value never yields a value for an empty lexeme.
C9_EmptyLexemeIsNoValue == ~obs.empty_val

\* C10: read_number yields no number for a lexeme of decimal digits whose
\* value exceeds 2^Width - 1.
C10_TooLargeNumberRejected == ~obs.big_num

\* lexemes the resolver is asked about: dup (a primitive), hex (a syntax
\* form), 7 (a decimal numeral), foo (none of these) and the name of every
\* word of the word store
ProbeLexemes ==
  {<<100, 117, 112>>, <<104, 101, 120>>, <<55>>, <<102, 111, 111>>}
    \cup {words[k].name : k \in 1..Len(words)}

\* read_value() of the interpreter at the start of a line holding lex only
Resolve(lex) ==
  read_value([Cur EXCEPT !.line = lex, !.pos = 1, !.cw_text = 0, !.cw_len = 0,
                         !.cw_handled = FALSE, !.error = NullError])

\* some entry of the table has the name lex
HasName(table, lex) == \E k \in 1..Len(table) : table[k].name = lex

\* the index (from 0) of the last entry of the table named lex
NewestIdx(table, lex) ==
  CHOOSE k \in 0..(Len(table) - 1) :
    /\ table[k + 1].name = lex
    /\ \A j \in (k + 2)..Len(table) : table[j].name # lex

\* lex is a decimal numeral of at most MaxDigits digits within the machine word
IsNumeral(lex) ==
  /\ Len(lex) \in 1..MaxDigits
  /\ \A i \in 1..Len(lex) : lex[i] \in CH_0..CH_9
  /\ DecValue(lex, Len(lex)) <= Mod - 1

\* the program is about to interpret a line of the prelude or of the input
\* (the word store is the same before and after the prompt is written)
LineAwaited == pc \in {"prelude", "read"} /\ status = "ok"

\* C11: whenever a line is about to be interpreted, a non-empty lexeme
\* resolves to the newest user word of that name if there is one, else to
\* the primitive of that name, else to the syntax form of that name, else to
\* the number it writes in decimal; a lexeme of none of the four classes
\* yields no value and sets "Error: undefined word".
C11_ResolutionOrder ==
  LineAwaited =>
    \A lex \in ProbeLexemes :
      Len(lex) > 0 =>
        LET r == Resolve(lex)
        IN IF HasName(words, lex)
           THEN r.has /\ r.val = [type |-> "Word", v |-> NewestIdx(words, lex)]
           ELSE IF HasName(primitives, lex)
           THEN r.has /\ r.val = [type |-> "Primitive", v |-> NewestIdx(primitives, lex)]
           ELSE IF HasName(syntax, lex)
           THEN r.has /\ r.val = [type |-> "Syntax", v |-> NewestIdx(syntax, lex)]
           ELSE IF IsNumeral(lex)
           THEN r.has /\ r.val = [type |-> "Number", v |-> DecValue(lex, Len(lex))]
           ELSE ~r.has /\ r.i.error = "Error: undefined word"

\* C11, witness: after the line ": dup 5 ; : hex 6 ; : 7 8 ; dup hex 7" the
\* three names are user words and the three later occurrences ran them.
C11_Witness ==
  /\ pc = "prompt"
  /\ status = "ok"
  /\ error = NullError
  /\ HasName(words, <<100, 117, 112>>)
  /\ HasName(words, <<104, 101, 120>>)
  /\ HasName(words, <<55>>)
  /\ stack = <<5, 6, 8>>

\* whenever a line is about to be interpreted, every name of the word store
\* resolves to the newest entry of that name
NewestResolves ==
  LineAwaited =>
    \A k \in 1..Len(words) :
      LET r == Resolve(words[k].name)
      IN r.has /\ r.val = new_word(NewestIdx(words, words[k].name))

\* every Word cell of a word's slice holds the index of an older entry
WordCellsPointBack ==
  \A k \in 1..Len(words) :
    \A j \in Slice(k) :
      (j <= Len(code) /\ code[j].type = "Word") => code[j].v < k - 1

\* a step keeps every entry of the word store and every cell of its slice
OlderEntriesKept ==
  status' = "ok" =>
    /\ Len(words') >= Len(words)
    /\ \A k \in 1..Len(words) :
         /\ words'[k] = words[k]
         /\ \A j \in Slice(k) : j <= Len(code) => (j <= Len(code') /\ code'[j] = code[j])

\* C12: a name resolves to its newest definition; defining a name again
\* removes no entry of the word store and changes no cell of an older word,
\* and the Word cells of every word refer to entries older than the word, so
\* words compiled before a redefinition keep running the older body.
C12_RedefinitionShadows ==
  /\ []NewestResolves
  /\ []WordCellsPointBack
  /\ [][OlderEntriesKept]_vars

\* C12, witness: after the line ": w 1 ; : x w ; : w 2 ; x w" the store holds
\* two entries named w, x ran the older one and w the newer one.
C12_Witness ==
  /\ pc = "prompt"
  /\ status = "ok"
  /\ error = NullError
  /\ stack = <<1, 2>>
  /\ \E a, b \in 1..Len(words) : a < b /\ words[a].name = <<119>> /\ words[b].name = <<119>>
  /\ \E k \in 1..Len(words) :
       /\ words[k].name = <<120>>
       /\ \E j \in Slice(k) : code[j].type = "Word" /\ words[code[j].v + 1].name = <<119>>
                              /\ code[j].v # NewestIdx(words, <<119>>)

\* the cells of the body that ran while the opcode of record r ran, in order
BodyTrace(r) ==
  LET InBody(p) == p >= r.start /\ p < r.start + r.rep_len
  IN SelectSeq(SubSeq(obs.trace, r.t0 + 1, r.t1), InBody)

\* the body of record r, cell by cell, r.reps times over
RepeatedBody(r) == [n \in 1..(r.reps * r.rep_len) |-> r.start + ((n - 1) % r.rep_len)]

NextRun(t) == IF t < Len(obs.trace) THEN obs.trace[t + 1] ELSE -1

\* C14: every compiled ? is Number(len), RawFunction(skip) and then exactly
\* len cells of the item; a run of skip on zero leaves the runner at the cell
\* after those len cells without executing one of them, a run on a nonzero
\* value leaves it at the first of them, which is executed next.
C14_CompiledSkip ==
  /\ \A n \in 1..Len(obs.skip_defs) :
       /\ obs.skip_defs[n].head = <<new_number(obs.skip_defs[n].emitted),
                                    new_function_ptr("skip")>>
       /\ obs.skip_defs[n].len = obs.skip_defs[n].emitted
  /\ \A n \in 1..Len(obs.skips) :
       IF obs.skips[n].b = 0
       THEN /\ obs.skips[n].after = obs.skips[n].start + obs.skips[n].len
            /\ ~(NextRun(obs.skips[n].t) \in
                   obs.skips[n].start..(obs.skips[n].start + obs.skips[n].len - 1))
       ELSE /\ obs.skips[n].after = obs.skips[n].start
            /\ (obs.skips[n].left > 0 /\ ~obs.skips[n].err)
                 => NextRun(obs.skips[n].t) = obs.skips[n].start

\* C14, witness: a line ": v ? <item> 7 ; 0 v 1 v" compiled a ? over an item
\* of several cells and ran it on zero and on a nonzero value.
C14_Witness ==
  /\ pc = "prompt"
  /\ status = "ok"
  /\ \E n \in 1..Len(obs.skip_defs) : obs.skip_defs[n].emitted > 1
  /\ \E n \in 1..Len(obs.skips) : obs.skips[n].b = 0 /\ obs.skips[n].len > 1
  /\ \E n \in 1..Len(obs.skips) : obs.skips[n].b # 0 /\ obs.skips[n].len > 1

\* C15: once ret has run in an invocation of a user word, that invocation
\* executes no further cell and fails no assert: it ends and the caller
\* continues.
C15_NothingRunsAfterRet == ~obs.ret_late

\* C16: outside a word definition rec and ret never run as control opcodes:
\* no runner that interpret-mode rep / rep_and made for its item executes
\* recurse or return_rf.
C16_NoControlOpcodeOutsideDefinition == ~obs.ctl_outside

\* the line "clear"
ClearLine == <<99, 108, 101, 97, 114>>

\* the interpreter after the line "clear" has been read in the current state
Cleared == interpret_str(Cur, ClearLine, FALSE)

\* C17: in every state in which the prompt waits after at most two lines,
\* the line "clear" returns with the stack empty and no error, after one pass of the
\* seven cells of clear for every element of the stack and a last pass of
\* six cells that ends at ret (stacks whose run fits into MaxSteps cells).
C17_ClearEmptiesStack ==
  (pc = "read" /\ status = "ok" /\ nlines <= 2 /\ 7 * Len(stack) + 6 <= MaxSteps) =>
    /\ Cleared.status = "ok"
    /\ Cleared.error = NullError
    /\ Cleared.stack = <<>>
    /\ Cleared.obs.steps = 7 * Len(stack) + 6

\* C17, witness: the line "clear" has been read with three elements on the
\* stack and has left none.
C17_Witness ==
  /\ pc = "prompt"
  /\ status = "ok"
  /\ line = ClearLine
  /\ error = NullError
  /\ stack = <<>>
  /\ obs.steps = 7 * 3 + 6

\* C18: on words of w bits, a c shl leaves (a * 2^c) mod 2^w and a c shr
\* leaves floor(a / 2^c) for every count c < w, and both leave zero for
\* every count c >= w (words written as the sets of their one bits).
C18_ShiftsByWidth ==
  /\ probe.op = "shl" =>
       probe.res = IF probe.c >= probe.w THEN {}
                   ELSE {i + probe.c : i \in probe.a} \cap 0..(probe.w - 1)
  /\ probe.op = "shr" =>
       probe.res = IF probe.c >= probe.w THEN {}
                   ELSE {i - probe.c : i \in {j \in probe.a : j >= probe.c}}

\* the value of one hexadecimal digit, -1 for every other character
HexDigit(ch) ==
  IF ch \in CH_0..CH_9 THEN ch - CH_0
  ELSE IF ch \in CH_a..(CH_a + 5) THEN ch - CH_a + 10
  ELSE IF ch \in CH_A..(CH_A + 5) THEN ch - CH_A + 10
  ELSE -1

RECURSIVE HexValue(_, _)
\* the number the hexadecimal digits lex[1..i] write, within the machine word
HexValue(lex, i) ==
  IF i = 0 THEN 0 ELSE (HexValue(lex, i - 1) * 16 + HexDigit(lex[i])) % Mod

\* 1 to 8 characters, all of them hexadecimal digits
IsHexToken(lex) ==
  /\ Len(lex) \in 1..8
  /\ \A i \in 1..Len(lex) : HexDigit(lex[i]) >= 0

\* C19: parse_hex accepts a token exactly when it has 1 to 8 characters all
\* in 0-9, a-f, A-F, and then yields its base-16 value; for every other
\* token it sets state.error.
C19_HexAcceptsHexDigitsOnly ==
  \A n \in 1..Len(obs.hexes) :
    IF IsHexToken(obs.hexes[n].lex)
    THEN /\ obs.hexes[n].ok
         /\ obs.hexes[n].val = HexValue(obs.hexes[n].lex, Len(obs.hexes[n].lex))
    ELSE ~obs.hexes[n].ok

\* tokens of 1 to wordsize bytes, none of them NUL or a space
ShortTokens ==
  {<<97>>, <<39>>, <<97, 98>>, <<98, 97>>, <<200, 65>>, [i \in 1..WordBytes |-> 96 + i]}

\* a token of wordsize + 1 bytes
LongToken == [i \in 1..(WordBytes + 1) |-> 96 + i]

\* the interpreter after the line "' s", or "' s pstr", has been read in the
\* current state
ShortStrRun(s, print) ==
  interpret_str(Cur, IF print THEN <<39, SPACE>> \o s \o <<SPACE, 112, 115, 116, 114>>
                     ELSE <<39, SPACE>> \o s, FALSE)

\* ShortStrRun(s, FALSE) has pushed one word whose i-th least-significant
\* byte is the i-th character of s
PushedShortStr(J, s) ==
  /\ J.status = "ok"
  /\ J.error = NullError
  /\ Len(J.stack) = Len(stack) + 1
  /\ SubSeq(J.stack, 1, Len(stack)) = stack
  /\ \A i \in 1..WordBytes :
       (J.stack[Len(J.stack)] \div (256 ^ (i - 1))) % 256 = IF i <= Len(s) THEN s[i] ELSE 0

\* ShortStrRun(s, TRUE) has written the characters of s, which interpret_str
\* ends with the newline of a line without error, and has left the stack
PrintedShortStr(J, s) ==
  /\ J.status = "ok"
  /\ J.error = NullError
  /\ J.stack = stack
  /\ J.out = out \o s \o <<NEWLINE>>

\* ShortStrRun(LongToken, FALSE) has set the error and pushed nothing
RejectedShortStr(J) ==
  /\ J.status = "ok"
  /\ J.error # NullError
  /\ J.stack = stack

StringSpans ==
  {<<97>>, <<97, 98>>, <<97, 98, 99>>, <<97, SPACE, 98>>, <<97, SPACE, SPACE, 98, 99>>,
   <<34, 97, SPACE, 98>>}

\* the lines  " span "  and  " span " print_string  and  : s " span " ;
StringLine(span) == <<34, SPACE>> \o span \o <<SPACE, 34>>
StringPrintLine(span) ==
  StringLine(span) \o <<SPACE, 112, 114, 105, 110, 116, 95, 115, 116, 114, 105, 110, 103>>
StringDefLine(span) == <<58, SPACE, 115, SPACE>> \o StringLine(span) \o <<SPACE, 59>>

\* ceil(L / wordsize)
CeilWords(L) == (L + WordBytes - 1) \div WordBytes

\* the word packed from bytes (i-1)*wordsize+1 .. of the span, first byte at
\* the least-significant end
SpanWord(span, i) ==
  LET lo == (i - 1) * WordBytes
  IN LET bytes == [j \in 1..WordBytes |-> IF lo + j <= Len(span) THEN span[lo + j] ELSE 0]
     IN PackBytes(bytes, 1, 0, WordBytes)

\* the values a string with this span stands for: its packed words, then
\* their count
SpanValues(span) ==
  [i \in 1..(CeilWords(Len(span)) + 1) |->
     IF i <= CeilWords(Len(span)) THEN SpanWord(span, i) ELSE CeilWords(Len(span))]

\* J is the interpreter after StringLine(span): the values are pushed
PushedString(J, span) ==
  /\ J.status = "ok"
  /\ J.error = NullError
  /\ J.stack = stack \o SpanValues(span)

\* J is the interpreter after StringPrintLine(span): the stack is as before
PrintedString(J) ==
  /\ J.status = "ok"
  /\ J.error = NullError
  /\ J.stack = stack

\* J is the interpreter after StringDefLine(span): the values are the Number
\* cells that start the body of the new word
CompiledString(J, span) ==
  /\ J.status = "ok"
  /\ J.error = NullError
  /\ Len(J.words) = Len(words) + 1
  /\ LET w == J.words[Len(J.words)]
     IN /\ w.code_len >= Len(SpanValues(span))
        /\ \A i \in 1..Len(SpanValues(span)) :
             J.code[w.code_pos + i] = new_number(SpanValues(span)[i])

\* C21: for a machine word of a power-of-two number of bytes, in every state
\* in which the prompt waits for a line and for every string whose raw span
\* has L bytes, the line  " f1 ... fk "  pushes ceil(L / wordsize) packed
\* words followed by their count, the definition  : s " f1 ... fk " ;
\* compiles the same values as Number cells, and  " f1 ... fk " print_string
\* leaves the stack as it was before the string.
C21_StringPushesWordsAndCount ==
  (pc = "read" /\ status = "ok" /\ WordBytes \in {1, 2, 4, 8}) =>
    \A span \in StringSpans :
      /\ PushedString(interpret_str(Cur, StringLine(span), FALSE), span)
      /\ PrintedString(interpret_str(Cur, StringPrintLine(span), FALSE))
      /\ CompiledString(interpret_str(Cur, StringDefLine(span), FALSE), span)

\* C21, witness: the line  " abc " print_string  has been read on an empty
\* stack, has written abc and has left the stack empty.
C21_Witness ==
  /\ pc = "prompt"
  /\ status = "ok"
  /\ line = StringPrintLine(<<97, 98, 99>>)
  /\ error = NullError
  /\ stack = <<>>
  /\ out = <<62, SPACE, 97, 98, 99, NEWLINE>>


\* machine words at the ends and in the middle of the signed range
EdgeWords == {0, 1, (Mod \div 2) - 1, Mod \div 2, Mod - 1}

\* the line  a b <=  with a and b written as unsigned decimal numerals
LeLine(a, b) == DecDigits(a) \o <<SPACE>> \o DecDigits(b) \o <<SPACE, 60, 61>>

\* C22: in every state in which the prompt waits for the first or the second
\* line, for all edge words a and b, the line  a b <=  leaves, above the
\* stack it found, exactly one value: -1 (all ones) if a <= b in the signed
\* view and 0 otherwise.
C22_LessOrEqual ==
  (pc = "read" /\ status = "ok" /\ nlines <= 1) =>
    \A a, b \in EdgeWords :
      LET J == interpret_str(Cur, LeLine(a, b), FALSE)
      IN /\ J.status = "ok"
         /\ J.error = NullError
         /\ J.stack = Append(stack, IF Sign(a) <= Sign(b) THEN Mod - 1 ELSE 0)

\* C22, witness: the line  1 2 <=  has been read on an empty stack and has
\* left -1.
C22_Witness ==
  /\ pc = "prompt"
  /\ status = "ok"
  /\ line = LeLine(1, 2)
  /\ error = NullError
  /\ stack = <<Mod - 1>>


\* largest count tried for ^
MaxPow == 5

\* bases for ^: small ones, one whose powers leave the word, the edges
PowBases == {0, 1, 2, 3, 255, Mod \div 2, Mod - 1}

RECURSIVE PowMod(_, _)
\* a^b mod 2^Width
PowMod(a, b) == IF b = 0 THEN 1 % Mod ELSE MulMod(a, PowMod(a, b - 1))

\* the line  a b ^
PowLine(a, b) == DecDigits(a) \o <<SPACE>> \o DecDigits(b) \o <<SPACE, 94>>

\* how often the cell at code position p was executed in the trace
RECURSIVE TimesRun(_, _)
TimesRun(trace, p) ==
  IF trace = <<>> THEN 0
  ELSE (IF Head(trace) = p THEN 1 ELSE 0) + TimesRun(Tail(trace), p)

\* J is the interpreter after PowLine(a, b): one value replaces a and b, and
\* the one rep_and that ran had the count b, the one-cell body *_under,
\* executed b times, and left the count on the stack for the drop after it
Powered(J, a, b) ==
  /\ J.status = "ok"
  /\ J.error = NullError
  /\ J.stack = Append(stack, PowMod(a, b))
  /\ Len(J.obs.reps) = 1
  /\ J.obs.reps[1].reps = b
  /\ J.obs.reps[1].rep_len = 1
  /\ J.obs.reps[1].top = b
  /\ TimesRun(J.obs.trace, J.obs.reps[1].start) = b
  /\ J.code[J.obs.reps[1].after + 1] = new_primitive(PW("PW_Drop"))
  /\ J.obs.steps = 5 * b + 7

\* C23: in every state in which the prompt waits for the first or the second
\* line, for every base a and every count b up to MaxPow, the line  a b ^
\* leaves, above the stack it found, exactly one value, a^b mod 2^w (1 when
\* b = 0); the rep compiled into ^ runs *_under exactly b times and the drop
\* cell after it removes the count that rep pushed back.
C23_Power ==
  (pc = "read" /\ status = "ok" /\ nlines <= 1) =>
    \A a \in PowBases : \A b \in 0..MaxPow :
      (5 * b + 7 <= MaxSteps) => Powered(interpret_str(Cur, PowLine(a, b), FALSE), a, b)

\* C23, witness: the line  2 3 ^  has been read on an empty stack and has
\* left 8 after three runs of *_under.
C23_Witness ==
  /\ pc = "prompt"
  /\ status = "ok"
  /\ line = PowLine(2, 3)
  /\ error = NullError
  /\ stack = <<8>>
  /\ Len(obs.reps) = 1
  /\ obs.reps[1].reps = 3
  /\ TimesRun(obs.trace, obs.reps[1].start) = 3


\* the line  1 0 ? drop .
Scenario3Line == <<49, SPACE, 48, SPACE, 63, SPACE, 100, 114, 111, 112, SPACE, 46>>

\* the line  1 0 ? drop .  has been read at a prompt that found the stack
\* empty (the words of the line are those of the prelude after at most one
\* line of input)
Scenario3Ran ==
  /\ pc = "prompt"
  /\ status = "ok"
  /\ line = Scenario3Line
  /\ nlines = 1

\* C24 as stated: after the line  1 0 ? drop .  on an empty stack drop has
\* been ignored, the stack is 1 0 and the line "0 1 " (top first) has been
\* printed after the prompt, followed by the newline that ends the line.
C24_Scenario3_AsStated ==
  Scenario3Ran =>
    /\ error = NullError
    /\ stack = <<1, 0>>
    /\ out = <<62, SPACE, 48, SPACE, 49, SPACE, NEWLINE, NEWLINE>>

\* C24: after the line  1 0 ? drop .  on an empty stack the ? has popped the
\* zero and drop has been ignored, the stack is 1 and the line "1 " has been
\* printed after the prompt, followed by the newline that ends the line.
C24_Scenario3 ==
  Scenario3Ran =>
    /\ error = NullError
    /\ stack = <<1>>
    /\ out = <<62, SPACE, 49, SPACE, NEWLINE, NEWLINE>>

\* C24, witness: the line has been read and has left the stack 1.
C24_Witness == Scenario3Ran /\ stack = <<1>> /\ error = NullError


\* the line  : loop10 10 rep show_top ; 0 loop10
Scenario6Line ==
  <<58, 32, 108, 111, 111, 112, 49, 48, 32, 49, 48, 32, 114, 101, 112, 32, 115, 104, 111,
    119, 95, 116, 111, 112, 32, 59, 32, 48, 32, 108, 111, 111, 112, 49, 48>>

\* the line has been read at the first prompt, on an empty stack
Scenario6Ran ==
  /\ pc = "prompt"
  /\ status = "ok"
  /\ line = Scenario6Line
  /\ nlines = 1

\* what is printed after the prompt when the numbers of ns are printed each
\* followed by a space, before the newline that ends the line
Printed(ns) == <<62, SPACE>> \o Flatten([k \in 1..Len(ns) |-> <<48 + ns[k], SPACE>>]) \o <<NEWLINE>>

\* C25 as stated: the line  : loop10 10 rep show_top ; 0 loop10  prints
\* "0 1 2 3 4 5 6 7 8 9 " and leaves 9 on top of the stack.
C25_Scenario6_AsStated ==
  Scenario6Ran =>
    /\ error = NullError
    /\ out = Printed([k \in 1..10 |-> k - 1])
    /\ stack # <<>>
    /\ stack[Len(stack)] = 9

\* C25: the line  : loop10 10 rep show_top ; 0 loop10  runs show_top ten
\* times on the 0, which nothing increments: it prints
\* "0 0 0 0 0 0 0 0 0 0 " and leaves the stack 0.
C25_Scenario6 ==
  Scenario6Ran =>
    /\ error = NullError
    /\ out = Printed([k \in 1..10 |-> 0])
    /\ stack = <<0>>
    /\ Len(obs.reps) = 1
    /\ obs.reps[1].reps = 10

\* C25, witness: the line has been read and the rep of loop10 has run with
\* the count 10.
C25_Witness ==
  /\ Scenario6Ran
  /\ error = NullError
  /\ Len(obs.reps) = 1
  /\ obs.reps[1].reps = 10
  /\ stack = <<0>>


\* the line  5 rep_and dup + .
Scenario4Line == <<53, 32, 114, 101, 112, 95, 97, 110, 100, 32, 100, 117, 112, 32, 43, 32, 46>>

\* the line has been read at the first prompt, on an empty stack
Scenario4Ran ==
  /\ pc = "prompt"
  /\ status = "ok"
  /\ line = Scenario4Line
  /\ nlines = 1

\* C26: after the line  5 rep_and dup + .  on an empty stack rep_and has
\* popped the 5 and the repeated code has raised the underflow error of dup;
\* the line has ended in that error: the count is not pushed back, the
\* scanner stands after dup, and nothing but the report of the error has
\* been written after the prompt.
C26_Scenario4 ==
  Scenario4Ran =>
    /\ error = StackLenGe("dup", "1")
    /\ reported = error
    /\ stack = <<>>
    /\ curr_word.text + curr_word.len = 14
    /\ out = <<62, SPACE, NEWLINE>> \o S_AT_WORD \o <<49, 48, 58, SPACE, 100, 117, 112, NEWLINE>>

\* C26, witness: the line has been read and has ended in the error of dup,
\* which ran once.
C26_Witness ==
  /\ Scenario4Ran
  /\ error = StackLenGe("dup", "1")
  /\ obs.steps = 1


\* a line has been read in this step
LineRead == pc = "read" /\ pc' # "read" /\ nlines' = nlines + 1

\* C27: whenever a line is read while the error of the line before is still
\* latched, the loop of interpret_str is entered with state.error null and
\* with the stack, the code buffer and the word store the line before left,
\* and it runs the first token of every line that is not empty.
C27_ErrorDoesNotCarryOver ==
  [][(LineRead /\ error # NullError) =>
       /\ Len(obs'.entry) = 1
       /\ obs'.entry[1].before = error
       /\ obs'.entry[1].error = NullError
       /\ obs'.entry[1].stack = stack
       /\ obs'.entry[1].code = code
       /\ obs'.entry[1].words = words
       /\ (line' # <<>> => obs'.entry[1].runs)]_vars

\* C27, witness: the second line, 1 2 3, was read while the error of the
\* first line was latched, and has pushed its three numbers.
C27_Witness ==
  /\ pc = "prompt"
  /\ status = "ok"
  /\ nlines = 2
  /\ line = <<49, SPACE, 50, SPACE, 51>>
  /\ Len(obs.entry) = 1
  /\ obs.entry[1].before # NullError
  /\ obs.entry[1].runs
  /\ error = NullError
  /\ stack = obs.entry[1].stack \o <<1, 2, 3>>


\* the numerals of a line that pushes n numbers, the k-th being the k-th of
\* 1, 65535 (-1 in the signed view), 2, 0 taken in turn
DeepValue(k) == <<1, Mod - 1, 2, 0>>[((k - 1) % 4) + 1]
DeepValues(n) == [k \in 1..n |-> DeepValue(k)]

\* the line  v1 ... vn .
DeepLine(n) == Flatten([k \in 1..n |-> DecDigits(DeepValue(k)) \o <<SPACE>>]) \o <<46>>

\* the signed views of the elements of st, each followed by a space
ShowAll(st) == Flatten([k \in 1..Len(st) |-> DecSigned(Sign(st[k])) \o <<SPACE>>])

\* st in reverse
Reversed(st) == [k \in 1..Len(st) |-> st[Len(st) + 1 - k]]

\* the min(len, 16) topmost elements of st, deepest first
Topmost(st) == SubSeq(st, Len(st) - (IF Len(st) < 16 THEN Len(st) ELSE 16) + 1, Len(st))

\* text is what . prints for the stack st: empty. for the empty stack,
\* otherwise the topmost elements, from the deepest to the top or from the
\* top to the deepest, after "... " exactly when there are more than 16
ShowsStack(text, st) ==
  IF st = <<>> THEN text = <<101, 109, 112, 116, 121, 46, NEWLINE>>
  ELSE LET dots == IF Len(st) > 16 THEN <<46, 46, 46, SPACE>> ELSE <<>>
       IN \/ text = dots \o ShowAll(Topmost(st)) \o <<NEWLINE>>
          \/ text = dots \o ShowAll(Reversed(Topmost(st))) \o <<NEWLINE>>

\* numbers of elements pushed before . : none, one, and around the 16 shown
DeepCounts == {0, 1, 15, 16, 17, 18}

\* C28: in every state in which the prompt waits for the first or the second
\* line and for every count n of DeepCounts, on the line  v1 ... vn .  the
\* word . leaves the stack as the numbers left it and prints empty. exactly
\* when that stack is empty, otherwise its min(len, 16) topmost elements in
\* the signed view and a newline, after "... " exactly when it has more than
\* 16 elements (interpret_str then ends the line with a newline).
C28_ShowStack ==
  (pc = "read" /\ status = "ok" /\ nlines <= 1) =>
    \A n \in DeepCounts :
      LET J == interpret_str(Cur, DeepLine(n), FALSE)
      IN /\ J.status = "ok"
         /\ J.error = NullError
         /\ J.stack = stack \o DeepValues(n)
         /\ Len(J.out) > Len(out)
         /\ ShowsStack(SubSeq(J.out, Len(out) + 1, Len(J.out) - 1), J.stack)
         /\ J.out[Len(J.out)] = NEWLINE

\* C28, witness: the line  1 2 3 4 5 6 7 8 9 0 1 2 3 4 5 6 65535 .  has been
\* read on an empty stack and has printed "... " and the 16 topmost of its 17
\* elements, the last one as -1.
C28_Witness ==
  /\ pc = "prompt"
  /\ status = "ok"
  /\ nlines = 1
  /\ Len(stack) = 17
  /\ stack[17] = Mod - 1
  /\ error = NullError
  /\ SubSeq(out, 1, 8) = <<62, SPACE, 46, 46, 46, SPACE, 50, SPACE>>
  /\ SubSeq(out, Len(out) - 4, Len(out)) = <<45, 49, SPACE, NEWLINE, NEWLINE>>


\* C29: within one line, over the calls of get_word in their order: no call
\* moves the cursor back or lets the remaining length grow, nothing between
\* two calls does, and a call that finds the current lexeme handled returns a
\* lexeme that starts at or after the end of the handled one.
C29_ScannerMovesForward ==
  \A n \in 1..Len(obs.scans) :
    LET call == obs.scans[n]
    IN /\ call.post.pos >= call.pre.pos
       /\ call.post.len <= call.pre.len
       /\ n > 1 => /\ call.pre.pos >= obs.scans[n - 1].post.pos
                   /\ call.pre.len <= obs.scans[n - 1].post.len
       /\ (call.pre.text # 0 /\ call.pre.handled) =>
            call.post.text >= call.pre.text + call.pre.wlen

\* C29, witness: the line 1 2 3 has been read: get_word has scanned three
\* lexemes, the second and the third after the one before had been handled.
C29_Witness ==
  /\ pc = "prompt"
  /\ status = "ok"
  /\ line = <<49, SPACE, 50, SPACE, 51>>
  /\ \A t \in {1, 3, 5} : \E n \in 1..Len(obs.scans) :
       /\ obs.scans[n].post.text = t
       /\ obs.scans[n].post.pos > obs.scans[n].pre.pos
       /\ t > 1 => obs.scans[n].pre.handled

\* C30: a call of get_word that finds a lexeme that has not been handled
\* leaves line, len and curr_word (text, len, handled) unchanged; a call
\* scans only when the lexeme has been handled or none has been produced.
C30_GetWordPeeks ==
  \A n \in 1..Len(obs.scans) :
    LET call == obs.scans[n]
    IN /\ (call.pre.text # 0 /\ ~call.pre.handled) => call.post = call.pre
       /\ call.post # call.pre => (call.pre.handled \/ call.pre.text = 0)

\* C30, witness: the line 1 2 3 has been read and get_word was called on the
\* lexeme 2 while it had not been handled.
C30_Witness ==
  /\ pc = "prompt"
  /\ status = "ok"
  /\ line = <<49, SPACE, 50, SPACE, 51>>
  /\ \E n \in 1..Len(obs.scans) :
       /\ obs.scans[n].pre.text = 3
       /\ ~obs.scans[n].pre.handled
       /\ obs.scans[n].post = obs.scans[n].pre


\* lines whose first lexeme the resolver is asked about: the lexemes of
\* ProbeLexemes alone, a numeral read_number finds too large, a primitive
\* after a space and before another lexeme, and the line of one space
ResolverLines ==
  ProbeLexemes \cup {<<55, 48, 48, 48, 48>>, <<SPACE, 100, 117, 112, SPACE, 102, 111, 111>>,
                     <<SPACE>>}

\* the interpreter at the start of the line ln, and after get_word has
\* produced its first lexeme
AtLine(ln) ==
  [Cur EXCEPT !.line = ln, !.pos = 1, !.cw_text = 0, !.cw_len = 0, !.cw_handled = FALSE,
              !.error = NullError]
Scanned(ln) == get_word(AtLine(ln))

\* r is the result of one class reader called in the interpreter I, which
\* holds a lexeme not yet handled: the reader has claimed that lexeme, or has
\* left the scanner and the lexeme as they were
ClaimedOrLeft(I, r) ==
  IF r.has
  THEN Scanner(r.i) = [Scanner(I) EXCEPT !.handled = TRUE]
  ELSE Scanner(r.i) = Scanner(I)

\* C31: whenever a line is about to be interpreted, for every line of
\* ResolverLines, each of read_word_idx, read_primitive_idx, read_syntax_idx
\* and read_number, called on the first lexeme, either succeeds and marks it
\* handled or rejects and leaves the scanner position and curr_word unchanged
\* with handled false; a successful read_value has scanned and marked handled
\* exactly the first lexeme of the line.
C31_ReadersClaimOrLeave ==
  (LineAwaited /\ nlines <= 2) =>
    \A ln \in ResolverLines :
      LET I == Scanned(ln)
          v == read_value(AtLine(ln))
      IN /\ ~I.cw_handled
         /\ ClaimedOrLeft(I, read_word_idx(I))
         /\ ClaimedOrLeft(I, read_primitive_idx(I))
         /\ ClaimedOrLeft(I, read_syntax_idx(I))
         /\ ClaimedOrLeft(I, read_number(I))
         /\ v.has => Scanner(v.i) = [Scanner(I) EXCEPT !.handled = TRUE]

\* C31, witness: the line foo has been read: the four readers have rejected
\* the lexeme, which is still the current one and not handled.
C31_Witness ==
  /\ pc = "prompt"
  /\ status = "ok"
  /\ line = <<102, 111, 111>>
  /\ error = "Error: undefined word"
  /\ curr_word = [text |-> 1, len |-> 3, handled |-> FALSE]
  /\ pos = 4


\* a line has been interpreted and the process goes on
LineDone == status' = "ok" /\ (nlines' # nlines \/ nprelude' # nprelude)

\* C32: whenever a line has been interpreted, every word published before
\* the line has the code_pos and code_len it had, every cell inside its slice
\* is the cell it was, and no cell was appended, written or removed during
\* the line at a position before the end of its slice.
C32_PublishedSlicesFrozen ==
  [][LineDone =>
       \A k \in 1..Len(words) :
         /\ words'[k].code_pos = words[k].code_pos
         /\ words'[k].code_len = words[k].code_len
         /\ obs'.low >= words[k].code_pos + words[k].code_len
         /\ Len(code') >= words[k].code_pos + words[k].code_len
         /\ SubSeq(code', words[k].code_pos + 1, words[k].code_pos + words[k].code_len)
              = SubSeq(code, words[k].code_pos + 1, words[k].code_pos + words[k].code_len)]_vars

\* C32, witness: a line has appended cells behind the slice of a user word
\* that ends where the code buffer ends, and removed all of them again.
C32_Witness ==
  /\ pc = "prompt"
  /\ status = "ok"
  /\ nlines = 2
  /\ Len(words) > Len(PreludeLines)
  /\ words[Len(words)].code_len > 0
  /\ words[Len(words)].code_pos + words[Len(words)].code_len = Len(code)
  /\ obs.low = Len(code)
  /\ obs.high > Len(code)


\* the record it of a call of compile_next: the count it reported is the
\* number of cells the code buffer grew by, or it failed and the code buffer
\* has the length it had
CountIsGrowth(it) ==
  IF it.has THEN it.to = it.from + it.val ELSE it.to = it.from

\* C33: in every reachable state, every call of compile_next that returned
\* during the line, for an item of a definition body, of a block or of a
\* ?, rep or rep_and at any depth, reported on success the number of cells
\* by which the code buffer grew, and on failure left the code buffer with
\* the length it had on entry.
C33_CountIsGrowth ==
  status = "ok" => \A n \in 1..Len(obs.items) : CountIsGrowth(obs.items[n])

\* C33, witness: compile_next has returned for a block of two cells, then
\* for the rep whose item the block is, reporting the block and three cells
\* more, then for the block that holds a number and this rep.
C33_Witness ==
  /\ pc = "prompt"
  /\ status = "ok"
  /\ \E a, b, c \in 1..Len(obs.items) :
       /\ a < b /\ b < c
       /\ obs.items[a].has /\ obs.items[a].val >= 2
       /\ obs.items[b].has /\ obs.items[b].val = obs.items[a].val + 3
       /\ obs.items[b].from = obs.items[a].from - 2
       /\ obs.items[c].has /\ obs.items[c].val = obs.items[b].val + 1
       /\ obs.items[c].from = obs.items[b].from - 1


\* C34: in every reachable state, every interpret-mode rep or rep_and that
\* returned during the line, whether it succeeded, its item failed to
\* compile or a repetition set state.error, returned with the code buffer
\* it was entered with, cell for cell.
C34_RepLeavesCodeBuffer ==
  status = "ok" => \A n \in 1..Len(obs.rep_forms) : obs.rep_forms[n].same

\* C34, witness: a line on which an interpret-mode rep or rep_and compiled
\* cells behind the code buffer and a repetition executed some of them and
\* set state.error.
C34_Witness ==
  /\ pc = "prompt"
  /\ status = "ok"
  /\ obs.tmp_cells > 0
  /\ \E n \in 1..Len(obs.rep_forms) :
       /\ obs.rep_forms[n].compiled
       /\ obs.rep_forms[n].failed
       /\ obs.rep_forms[n].steps > 0


\* C35: whenever a line has been interpreted on which read_number found an
\* all-digit lexeme too large, or a definition body was rejected for a `:`
\* inside it, the error latched for the line is that error and not
\* "Error: undefined word".
C35_SpecificErrorLatched ==
  (pc = "prompt" /\ status = "ok" /\ obs.specific # "") =>
    /\ error = obs.specific
    /\ reported = obs.specific


\* C36: in every reachable state, no scanning loop of the line that was
\* interpreted (the line loop, the loops of comments, strings, blocks and
\* definitions, and the ignore handlers) has repeated an iteration that
\* neither consumed a lexeme nor left the loop: a line whose words and
\* repetitions terminate is interpreted to its end.
C36_ScanningLoopsProgress ==
  ~(status = "hung" /\ obs.scan_spin)


\* token sequences of numbers, primitives, words of the prelude, ?, rep,
\* rep_and and [ ... ], as lines
TokenLines ==
  { <<49, 32, 50, 32, 43>>,   \* 1 2 +
    <<100, 117, 112, 32, 42>>,   \* dup *
    <<63, 32, 55>>,   \* ? 7
    <<63, 32, 91, 32, 49, 32, 50, 32, 93, 32, 51>>,   \* ? [ 1 2 ] 3
    <<114, 101, 112, 95, 97, 110, 100, 32, 100, 117, 112>>,   \* rep_and dup
    <<50, 32, 114, 101, 112, 32, 91, 32, 49, 32, 43, 32, 93>>,   \* 2 rep [ 1 + ]
    <<51, 32, 110, 101, 103>>,   \* 3 neg
    <<114, 101, 112, 95, 97, 110, 100, 32, 91, 32, 63, 32, 53, 32, 93>>,   \* rep_and [ ? 5 ]
    <<63, 32, 114, 101, 112, 32, 91, 32, 49, 32, 93, 32, 57>>,   \* ? rep [ 1 ] 9
    <<91, 32, 49, 32, 91, 32, 100, 117, 112, 32, 93, 32, 93, 32, 115, 119, 97, 112>>,   \* [ 1 [ dup ] ] swap
    <<50, 32, 51, 32, 94>>,   \* 2 3 ^
    <<63, 32, 63, 32, 49, 32, 50>>,   \* ? ? 1 2
    <<114, 101, 112, 32, 63, 32, 91, 32, 52, 32, 93>>,   \* rep ? [ 4 ]
    <<49, 32, 114, 101, 112, 95, 97, 110, 100, 32, 91, 32, 50, 32, 114, 101, 112, 95, 97, 110, 100, 32, 91, 32, 51, 32, 93, 32, 93>> }   \* 1 rep_and [ 2 rep_and [ 3 ] ]

\* the stacks the token sequences are run on
StartStacks == {<<>>, <<0>>, <<1>>, <<2>>, <<1, 0>>, <<0, 1>>, <<3, 2>>, <<0, 5, 1>>}

\* the line  : w T ;
DefineW(T) == <<58, SPACE, 119, SPACE>> \o T \o <<SPACE, CH_SEMI>>

\* the line  w
InvokeW == <<119>>

\* the line was interpreted to its end and no error was raised
Clean(J) == J.status = "ok" /\ J.error = NullError

\* the token sequence T run at the prompt in I leaves the stack that the
\* word w defined as T leaves, unless one of the lines raises an error
SameStack(I, T) ==
  LET A == interpret_str(I, T, FALSE)
      D == interpret_str(I, DefineW(T), FALSE)
      B == interpret_str(D, InvokeW, FALSE)
  IN (Clean(A) /\ Clean(D) /\ Clean(B)) => A.stack = B.stack

\* C37: in every state in which the prompt waits for the first or the second
\* line, for every token sequence T of TokenLines and every stack of
\* StartStacks on which neither execution raises an error, running T at the
\* prompt leaves the same stack as defining  : w T ;  and then invoking w.
C37_InterpretAndCompileAgree ==
  (pc = "read" /\ status = "ok" /\ nlines <= 1) =>
    \A T \in TokenLines : \A st \in StartStacks :
      SameStack([Cur EXCEPT !.stack = st], T)

\* the line  2 rep_and [ 1 ? 7 ] : w 2 rep_and [ 1 ? 7 ] ; w
AgreeLine ==
  LET T == <<50, 32, 114, 101, 112, 95, 97, 110, 100, 32, 91, 32, 49, 32, 63, 32, 55, 32, 93>>
  IN T \o <<SPACE>> \o DefineW(T) \o <<SPACE>> \o InvokeW

\* C37, witness: the line AgreeLine has been read on an empty stack: the
\* token sequence run at the prompt has left 7 7 2, and the word w defined
\* as the same sequence and invoked has left 7 7 2 again.
C37_Witness ==
  /\ pc = "prompt"
  /\ status = "ok"
  /\ line = AgreeLine
  /\ error = NullError
  /\ stack = <<7, 7, 2, 7, 7, 2>>
  /\ words[Len(words)].name = <<119>>


\* C38: in every reachable state, every primitive that returned during the
\* line with an error it set for a failed precondition (a stack-length
\* check, the second checks of nth, rev_n and print_string included, or n = 0
\* in nth) returned with the stack it was called with.
C38_FailedPrimitiveKeepsStack ==
  status = "ok" => \A n \in 1..Len(obs.prim_fails) : obs.prim_fails[n].kept


\* the Word cells inside the slice of the word with index i, counted from 0,
\* hold indices of the word store that are less than i
CallsOlderWords(i) ==
  \A p \in (words[i + 1].code_pos + 1)..(words[i + 1].code_pos + words[i + 1].code_len) :
    (p <= Len(code) /\ code[p].type = "Word") => (0 <= code[p].v /\ code[p].v < i)

\* C39: in every reachable state, every Word cell inside the slice of the
\* word with index i holds an index j < i of the word store, and the calls of
\* run_word_idx that were nested in one another during the line were never
\* more than the words defined at the time.
C39_CallGraphAcyclic ==
  status = "ok" =>
    /\ \A i \in 0..(Len(words) - 1) : CallsOlderWords(i)
    /\ ~obs.too_deep
    /\ obs.depth_max <= Len(words)

\* C39, witness: a line has defined a word, then a second word with a Word
\* cell for the first in its body, then a third word named like the first,
\* and has run the second word, which called the first.
C39_Witness ==
  /\ pc = "prompt"
  /\ status = "ok"
  /\ error = NullError
  /\ obs.depth_max = 2
  /\ obs.depth = 0
  /\ Len(words) = Len(PreludeLines) + 3
  /\ words[Len(words)].name = words[Len(words) - 2].name
  /\ words[Len(words) - 1].code_len = 1
  /\ code[words[Len(words) - 1].code_pos + 1] = new_word(Len(words) - 3)

====
